---- MODULE Spec2Model ----
(***************************************************************************)
(* A model of the to-do application's repository layer                     *)
(* (LocalStorageService, ProjectStorageService, TaskStorageService) and of *)
(* the two React hooks that drive it (useTasks, useProjects).              *)
(*                                                                         *)
(* Encoding of JavaScript values:                                          *)
(*   - ids are positive integers (generateId yields a fresh string each    *)
(*     call); 0 stands for undefined / "" (both falsy);                    *)
(*   - Date values are integer timestamps; an absent dueDate is NoDate;    *)
(*     JSON.stringify writes a Date as an ISO-8601 string with             *)
(*     millisecond precision and getTasks/getProjects rebuild the Date, so *)
(*     a timestamp is stored as itself;                                    *)
(*   - a project's createdAt, updatedAt and description are written and  *)
(*     never read by any operation, and are left out of its record;        *)
(*   - a Partial<...> argument is a record that lists in `keys` the        *)
(*     properties it carries;                                              *)
(*   - null results are the records NullTask / NullProject (id 0);         *)
(*   - the filter and the sort of useTasks are kept in the hook's state;   *)
(*     their copy under the task_filter / task_sort keys is written and    *)
(*     read at mount only, and is left out;                                *)
(*   - filteredAndSortedTasks and stats of useTasks are operators on the   *)
(*     state and the clock; projectsWithStats of useProjects, whose        *)
(*     useMemo is recomputed on `projects` only, is a variable;            *)
(*   - project names, titles and queries are strings; Chars gives their    *)
(*     characters where an operation looks into them.                      *)
(***************************************************************************)
EXTENDS Integers, Sequences, FiniteSets, TLC

VARIABLES
    store,        \* window.localStorage: the tasks key and the projects key
    nextId,       \* ids generated so far (generateId never repeats)
    now,          \* the clock read by new Date()
    hookTasks,    \* useTasks: the `tasks` state (allTasks)
    peerTasks,    \* useTasks in a second tab on the same store: its `tasks` state
    hookProjects, \* useProjects: the `projects` state
    projectsWithStats,  \* useProjects: the memoised projectsWithStats (the counts)
    last,         \* the handler that ran last and what it returned
    tog,          \* the run of consecutive toggleTask calls on one task
    filter,       \* useTasks: the `filter` state
    sort          \* useTasks: the `sort` state

vars == <<store, nextId, now, hookTasks, peerTasks, hookProjects,
          projectsWithStats, last, tog, filter, sort>>

\* ---------------------------------------------------------------- bounds
MaxTasks == 2
MaxProjects == 2
MaxId == 3
MaxTime == 1
MaxWriteFaults == 2
MaxBulk == 2

\* ---------------------------------------------------------------- values
NoDate == 0 - 1
NoStr == "<undefined>"

NullTask ==
    [id |-> 0, title |-> "", description |-> NoStr, completed |-> FALSE,
     status |-> "todo", priority |-> "medium", projectId |-> 0,
     dueDate |-> NoDate, createdAt |-> 0, updatedAt |-> 0, tags |-> <<>>]

NullProject ==
    [id |-> 0, name |-> "", color |-> "blue", isDefault |-> FALSE]

\* DEFAULT_PROJECT: name, colour and isDefault of the automatic project
DEFAULT_PROJECT ==
    [name |-> "Personal", color |-> "blue", isDefault |-> TRUE]

\* "all" as a project filter (project ids are integers)
AllProjects == 0 - 1

\* DEFAULT_FILTER.  An absent string field is "" and an absent tag list is
\* the empty list: the filter step tests both for truthiness only.
DEFAULT_FILTER ==
    [searchQuery |-> "", status |-> "all", priority |-> "all",
     projectId |-> AllProjects, dueDate |-> "all", tags |-> <<>>,
     showCompleted |-> TRUE]

\* DEFAULT_SORT
DEFAULT_SORT ==
    [sortBy |-> "createdDate", direction |-> "desc"]

\* CreateTaskInput of a handler that takes none
NoInput ==
    [title |-> "", description |-> NoStr, priority |-> "", projectId |-> 0,
     dueDate |-> NoDate, tags |-> <<>>]

\* ------------------------------------------------------- sequence helpers
\* findIndex answering the first element for an id that is not there
FindIndex_first(s, id) ==
    IF \E i \in 1..Len(s) : s[i].id = id
    THEN CHOOSE i \in 1..Len(s) : s[i].id = id /\ \A j \in 1..(i - 1) : s[j].id # id
    ELSE IF Len(s) > 0 THEN 1 ELSE 0

\* Array.prototype.findIndex on the id, 1-based; 0 when there is none
FindIndex(s, id) ==
    IF \E i \in 1..Len(s) : s[i].id = id
    THEN CHOOSE i \in 1..Len(s) : s[i].id = id /\ \A j \in 1..(i - 1) : s[j].id # id
    ELSE 0

IdsOf(s) == {s[i].id : i \in 1..Len(s)}

\* ------------------------------------------------------ LocalStorageService
\* A key of window.localStorage: absent, holding text JSON.parse rejects, or
\* holding a serialised collection.
Entry(state, items) == [state |-> state, items |-> items]

\* get(key, defaultValue): the default when the key is absent or unreadable
LSGet(entry, defaultValue) ==
    IF entry.state = "ok" THEN entry.items ELSE defaultValue

\* The threading of one handler's calls: the two keys, the id generator, the
\* clock, the outcomes of the setItem calls still to come (w, TRUE = stored;
\* calls past the end of w succeed) and the keys whose write has failed.
Ctx(w) ==
    [tasks |-> store.tasks, projects |-> store.projects, nextId |-> nextId,
     now |-> now, w |-> w, failed |-> {}]

\* A statement `const x = v; ...`: v is evaluated once, before the
\* statements that follow it
Bind(v, Rest(_)) ==
    CHOOSE y \in {Rest(x) : x \in {v}} : TRUE

\* set(key, value): setItem may throw (quota, storage disabled); the catch
\* turns that into false and the key keeps its old content
LSSet(ctx, key, value) ==
    Bind(ctx, LAMBDA c :
        IF c.w = <<>>
        THEN [ctx |-> [c EXCEPT ![key] = Entry("ok", value)], ret |-> TRUE]
        ELSE IF Head(c.w)
             THEN [ctx |-> [c EXCEPT ![key] = Entry("ok", value), !.w = Tail(@)],
                   ret |-> TRUE]
             ELSE [ctx |-> [c EXCEPT !.failed = @ \cup {key}, !.w = Tail(@)],
                   ret |-> FALSE])

\* remove(key)
LSRemove(ctx, key) ==
    [ctx |-> [ctx EXCEPT ![key] = Entry("missing", <<>>)], ret |-> TRUE]

\* ---------------------------------------------------- ProjectStorageService
\* saveProjects
PS_saveProjects(ctx, projects) == LSSet(ctx, "projects", projects)

\* createDefaultProject: a fresh id, isDefault true, saved as the whole
\* collection; the result of the save is ignored
PS_createDefaultProject(ctx) ==
    Bind([id |-> ctx.nextId, name |-> DEFAULT_PROJECT.name,
          color |-> DEFAULT_PROJECT.color,
          isDefault |-> DEFAULT_PROJECT.isDefault], LAMBDA dp :
    Bind(PS_saveProjects([ctx EXCEPT !.nextId = @ + 1], <<dp>>), LAMBDA s :
        [ctx |-> s.ctx, ret |-> dp]))

\* getProjects: an empty, absent or unreadable collection is replaced by a
\* freshly created default project
PS_getProjects(ctx) ==
    Bind(LSGet(ctx.projects, <<>>), LAMBDA projects :
        IF Len(projects) = 0
        THEN Bind(PS_createDefaultProject(ctx), LAMBDA d :
                 [ctx |-> d.ctx, ret |-> <<d.ret>>])
        ELSE [ctx |-> ctx, ret |-> projects])

\* Array.prototype.find(p => p.isDefault) || null
FirstDefault(projects) ==
    IF \E i \in 1..Len(projects) : projects[i].isDefault
    THEN projects[CHOOSE i \in 1..Len(projects) :
                     /\ projects[i].isDefault
                     /\ \A j \in 1..(i - 1) : ~projects[j].isDefault]
    ELSE NullProject

\* getDefaultProject
PS_getDefaultProject(ctx) ==
    Bind(PS_getProjects(ctx), LAMBDA g :
        [ctx |-> g.ctx, ret |-> FirstDefault(g.ret)])

\* projectExists
PS_projectExists(ctx, projectId) ==
    Bind(PS_getProjects(ctx), LAMBDA g :
        [ctx |-> g.ctx, ret |-> projectId \in IdsOf(g.ret)])

\* addProject: the new id is generated before the collection is read; the
\* record carries no isDefault; the result of the save is ignored
PS_addProject(ctx, input) ==
    Bind([id |-> ctx.nextId, name |-> input.name,
          color |-> IF input.color = "" THEN "blue" ELSE input.color,
          isDefault |-> FALSE], LAMBDA newProject :
    Bind(PS_getProjects([ctx EXCEPT !.nextId = @ + 1]), LAMBDA g :
    Bind(PS_saveProjects(g.ctx, Append(g.ret, newProject)), LAMBDA s :
        [ctx |-> s.ctx, ret |-> newProject])))

\* { ...project, ...updates, updatedAt: new Date() }
MergeProject(p, u) ==
    [id |-> p.id,
     name |-> IF "name" \in u.keys THEN u.name ELSE p.name,
     color |-> IF "color" \in u.keys THEN u.color ELSE p.color,
     isDefault |-> IF "isDefault" \in u.keys THEN u.isDefault ELSE p.isDefault]

\* updateProject: null for an unknown id; otherwise the merged record, with
\* the result of the save ignored
PS_updateProject(ctx, projectId, updates) ==
    Bind(PS_getProjects(ctx), LAMBDA g :
    Bind(FindIndex(g.ret, projectId), LAMBDA idx :
        IF idx = 0
        THEN [ctx |-> g.ctx, ret |-> NullProject]
        ELSE Bind(MergeProject(g.ret[idx], updates), LAMBDA updated :
             Bind(PS_saveProjects(g.ctx, [g.ret EXCEPT ![idx] = updated]),
                  LAMBDA s : [ctx |-> s.ctx, ret |-> updated]))))

\* deleteProject: false for an unknown or a default project; otherwise the
\* result of saving the collection without it
PS_deleteProject(ctx, projectId) ==
    Bind(PS_getProjects(ctx), LAMBDA g :
    Bind(FindIndex(g.ret, projectId), LAMBDA idx :
        IF idx = 0 \/ g.ret[idx].isDefault
        THEN [ctx |-> g.ctx, ret |-> FALSE]
        ELSE PS_saveProjects(g.ctx, SelectSeq(g.ret, LAMBDA p : p.id # projectId))))

\* clearAllProjects: removes the key
PS_clearAllProjects(ctx) == LSRemove(ctx, "projects")

\* importProjects: a default project is put in front when the list has none
PS_importProjects(ctx, projects) ==
    IF \E i \in 1..Len(projects) : projects[i].isDefault
    THEN PS_saveProjects(ctx, projects)
    ELSE PS_saveProjects([ctx EXCEPT !.nextId = @ + 1],
                         <<[id |-> ctx.nextId, name |-> DEFAULT_PROJECT.name,
                            color |-> DEFAULT_PROJECT.color,
                            isDefault |-> DEFAULT_PROJECT.isDefault]>>
                         \o projects)

\* ------------------------------------------------------- TaskStorageService
\* getTasks: the stored collection ([] when absent or unreadable) with its
\* dates rebuilt; a falsy dueDate becomes undefined
TS_getTasks(ctx) ==
    Bind(LSGet(ctx.tasks, <<>>), LAMBDA raw :
        [i \in 1..Len(raw) |->
            [raw[i] EXCEPT !.dueDate = IF raw[i].dueDate = NoDate THEN NoDate ELSE @]])

\* saveTasks
TS_saveTasks(ctx, tasks) == LSSet(ctx, "tasks", tasks)

\* the validation of a truthy projectId in addTask and updateTask: an id
\* that names no project is replaced by the default project's id (0, for
\* undefined, when there is no default project)
ResolveProject(ctx, projectId) ==
    Bind(PS_projectExists(ctx, projectId), LAMBDA e :
        IF e.ret
        THEN [ctx |-> e.ctx, ret |-> projectId]
        ELSE Bind(PS_getDefaultProject(e.ctx), LAMBDA d :
                 [ctx |-> d.ctx, ret |-> d.ret.id]))

\* addTask writing the new task alone instead of the stored tasks with it
TS_addTask_alone(ctx, input) ==
    Bind(PS_getDefaultProject(ctx), LAMBDA d :
    Bind([id |-> d.ctx.nextId, title |-> input.title,
          description |-> input.description,
          completed |-> FALSE, status |-> "todo",
          priority |-> IF input.priority = "" THEN "medium" ELSE input.priority,
          projectId |-> d.ret.id, dueDate |-> input.dueDate,
          createdAt |-> ctx.now, updatedAt |-> ctx.now,
          tags |-> input.tags], LAMBDA newTask :
    Bind(TS_saveTasks([d.ctx EXCEPT !.nextId = @ + 1], <<newTask>>), LAMBDA s :
        [ctx |-> s.ctx, ret |-> newTask])))

\* addTask: an absent or unknown projectId is replaced by the default
\* project's id (undefined when there is no default project); the task is
\* returned whatever the save answered
TS_addTask(ctx, input) ==
    Bind(IF input.projectId = 0
         THEN Bind(PS_getDefaultProject(ctx), LAMBDA d :
                  [ctx |-> d.ctx, ret |-> d.ret.id])
         ELSE [ctx |-> ctx, ret |-> input.projectId], LAMBDA p1 :
    Bind(IF p1.ret # 0 THEN ResolveProject(p1.ctx, p1.ret) ELSE p1, LAMBDA p2 :
    Bind([id |-> p2.ctx.nextId, title |-> input.title,
          description |-> input.description,
          completed |-> FALSE, status |-> "todo",
          priority |-> IF input.priority = "" THEN "medium" ELSE input.priority,
          projectId |-> p2.ret, dueDate |-> input.dueDate,
          createdAt |-> ctx.now, updatedAt |-> ctx.now,
          tags |-> input.tags], LAMBDA newTask :
    Bind(TS_saveTasks([p2.ctx EXCEPT !.nextId = @ + 1],
                      Append(TS_getTasks(p2.ctx), newTask)), LAMBDA s :
        [ctx |-> s.ctx, ret |-> newTask]))))

\* { ...task, ...updates, updatedAt: new Date() }
MergeTask(t, u, at) ==
    [id |-> t.id,
     title |-> IF "title" \in u.keys THEN u.title ELSE t.title,
     description |-> IF "description" \in u.keys THEN u.description
                     ELSE t.description,
     completed |-> IF "completed" \in u.keys THEN u.completed ELSE t.completed,
     status |-> IF "status" \in u.keys THEN u.status ELSE t.status,
     priority |-> IF "priority" \in u.keys THEN u.priority ELSE t.priority,
     projectId |-> IF "projectId" \in u.keys THEN u.projectId ELSE t.projectId,
     dueDate |-> IF "dueDate" \in u.keys THEN u.dueDate ELSE t.dueDate,
     createdAt |-> t.createdAt,
     updatedAt |-> at,
     tags |-> IF "tags" \in u.keys THEN u.tags ELSE t.tags]

\* updateTask: null for an unknown id; a truthy updates.projectId naming no
\* project is overwritten, in the caller's object, by the default project's
\* id; the merged task is returned whatever the save answered.  `updates`
\* in the result is the caller's object after the call.
TS_updateTask(ctx, taskId, updates) ==
    Bind(TS_getTasks(ctx), LAMBDA tasks :
    Bind(FindIndex(tasks, taskId), LAMBDA idx :
        IF idx = 0
        THEN [ctx |-> ctx, ret |-> NullTask, updates |-> updates]
        ELSE
    Bind(IF "projectId" \in updates.keys /\ updates.projectId # 0
         THEN Bind(ResolveProject(ctx, updates.projectId), LAMBDA p :
                  [ctx |-> p.ctx, ret |-> [updates EXCEPT !.projectId = p.ret]])
         ELSE [ctx |-> ctx, ret |-> updates], LAMBDA u :
    Bind(MergeTask(tasks[idx], u.ret, ctx.now), LAMBDA updated :
    Bind(TS_saveTasks(u.ctx, [tasks EXCEPT ![idx] = updated]), LAMBDA s :
        [ctx |-> s.ctx, ret |-> updated, updates |-> u.ret])))))

\* deleteTask answering true for a known id whatever the save answered
TS_deleteTask_ignore(ctx, taskId) ==
    Bind(TS_getTasks(ctx), LAMBDA tasks :
    Bind(SelectSeq(tasks, LAMBDA t : t.id # taskId), LAMBDA filteredTasks :
        IF Len(filteredTasks) = Len(tasks)
        THEN [ctx |-> ctx, ret |-> FALSE]
        ELSE [ctx |-> TS_saveTasks(ctx, filteredTasks).ctx, ret |-> TRUE]))

\* deleteTask: false for an unknown id, otherwise the result of the save
TS_deleteTask(ctx, taskId) ==
    Bind(TS_getTasks(ctx), LAMBDA tasks :
    Bind(SelectSeq(tasks, LAMBDA t : t.id # taskId), LAMBDA filteredTasks :
        IF Len(filteredTasks) = Len(tasks)
        THEN [ctx |-> ctx, ret |-> FALSE]
        ELSE TS_saveTasks(ctx, filteredTasks)))

\* the updates toggleTask hands to updateTask
ToggleUpdates(task) ==
    [keys |-> {"completed", "status"},
     completed |-> ~task.completed,
     status |-> IF ~task.completed THEN "completed" ELSE "todo"]

\* toggleTask: null for an unknown id, otherwise updateTask with the flipped
\* completed and the status completed / todo
TS_toggleTask(ctx, taskId) ==
    Bind(TS_getTasks(ctx), LAMBDA tasks :
    Bind(FindIndex(tasks, taskId), LAMBDA idx :
        IF idx = 0
        THEN [ctx |-> ctx, ret |-> NullTask, updates |-> ToggleUpdates(NullTask)]
        ELSE TS_updateTask(ctx, taskId, ToggleUpdates(tasks[idx]))))

\* clearCompletedTasks: the count of completed tasks, whatever the save
\* answered
TS_clearCompletedTasks(ctx) ==
    Bind(TS_getTasks(ctx), LAMBDA tasks :
    Bind(SelectSeq(tasks, LAMBDA t : ~t.completed), LAMBDA activeTasks :
    Bind(TS_saveTasks(ctx, activeTasks), LAMBDA s :
        [ctx |-> s.ctx, ret |-> Len(tasks) - Len(activeTasks)])))

\* moveTasksToProject: false for an unknown target or when no task is named
TS_moveTasksToProject(ctx, taskIds, targetProjectId) ==
    Bind(PS_projectExists(ctx, targetProjectId), LAMBDA e :
        IF ~e.ret
        THEN [ctx |-> e.ctx, ret |-> FALSE]
        ELSE
    Bind(TS_getTasks(e.ctx), LAMBDA tasks :
        IF \E i \in 1..Len(tasks) : tasks[i].id \in taskIds
        THEN TS_saveTasks(e.ctx,
                 [i \in 1..Len(tasks) |->
                     IF tasks[i].id \in taskIds
                     THEN [tasks[i] EXCEPT !.projectId = targetProjectId,
                                           !.updatedAt = ctx.now]
                     ELSE tasks[i]])
        ELSE [ctx |-> e.ctx, ret |-> FALSE]))

\* handleProjectDeletion reporting success without reassigning any task
TS_handleProjectDeletion_keep(ctx, deletedProjectId) ==
    Bind(PS_getDefaultProject(ctx), LAMBDA d :
        [ctx |-> d.ctx, ret |-> d.ret.id # 0])

\* handleProjectDeletion: false without a default project, true when the
\* project has no task, otherwise the result of saving the tasks with the
\* project's tasks given the default project's id and a new updatedAt
TS_handleProjectDeletion(ctx, deletedProjectId) ==
    Bind(PS_getDefaultProject(ctx), LAMBDA d :
        IF d.ret.id = 0
        THEN [ctx |-> d.ctx, ret |-> FALSE]
        ELSE
    Bind(TS_getTasks(d.ctx), LAMBDA tasks :
        IF \A i \in 1..Len(tasks) : tasks[i].projectId # deletedProjectId
        THEN [ctx |-> d.ctx, ret |-> TRUE]
        ELSE TS_saveTasks(d.ctx,
                 [i \in 1..Len(tasks) |->
                     IF tasks[i].projectId = deletedProjectId
                     THEN [tasks[i] EXCEPT !.projectId = d.ret.id,
                                           !.updatedAt = ctx.now]
                     ELSE tasks[i]])))


\* getTasksByProject
TS_getTasksByProject(ctx, projectId) ==
    SelectSeq(TS_getTasks(ctx), LAMBDA t : t.projectId = projectId)

\* the counts of getTaskStats and getTaskStatsByProject over `tasks` at the
\* time `at`: overdue compares the due date with the current instant
TaskStatsOf(tasks, at) ==
    [total |-> Len(tasks),
     completed |-> Len(SelectSeq(tasks, LAMBDA t : t.completed)),
     pending |-> Len(SelectSeq(tasks, LAMBDA t : ~t.completed)),
     overdue |-> Len(SelectSeq(tasks, LAMBDA t :
                    t.dueDate # NoDate /\ t.dueDate < at /\ ~t.completed)),
     highPriority |-> Len(SelectSeq(tasks, LAMBDA t :
                    t.priority = "high" /\ ~t.completed))]

\* getTaskStats
TS_getTaskStats(ctx) ==
    TaskStatsOf(TS_getTasks(ctx), ctx.now)

\* getTaskStatsByProject
TS_getTaskStatsByProject(ctx, projectId) ==
    TaskStatsOf(TS_getTasksByProject(ctx, projectId), ctx.now)

\* ------------------------------------------------------------ input domains
Ids == 1..MaxId

\* outcomes of the first MaxWriteFaults setItem calls of a handler
WriteOutcomes == [1..MaxWriteFaults -> BOOLEAN]

\* CreateTaskInput values
TaskInputs ==
    [title : {"a"}, description : {NoStr}, priority : {""},
     projectId : 0..MaxId, dueDate : {NoDate}, tags : {<<>>}]
    \cup [title : {""}, description : {NoStr}, priority : {"high"},
          projectId : {0}, dueDate : {NoDate}, tags : {<<>>}]

\* Partial<Task> values
TaskUpdates ==
    [keys : {{"completed"}}, completed : BOOLEAN]
    \cup [keys : {{"status"}}, status : {"todo", "in_progress", "completed"}]
    \cup [keys : {{"completed", "status"}}, completed : {TRUE}, status : {"completed"}]
    \cup [keys : {{"projectId"}}, projectId : 0..MaxId]

\* CreateProjectInput values
ProjectInputs == [name : {"Work"}, color : {""}]

\* Partial<Project> values
ProjectUpdates ==
    [keys : {{"isDefault"}}, isDefault : BOOLEAN]

\* project records of a backup handed to importProjects
ImportedProject(id, isDefault) ==
    [id |-> id, name |-> "Personal", color |-> "blue", isDefault |-> isDefault]

\* backups of at most two projects with distinct ids
ImportLists ==
    {<<>>}
    \cup {<<ImportedProject(i, d)>> : i \in Ids, d \in BOOLEAN}
    \cup {<<ImportedProject(p[1], d), ImportedProject(p[2], e)>> :
            p \in {q \in Ids \X Ids : q[1] # q[2]}, d \in BOOLEAN, e \in BOOLEAN}

\* arrays of ids handed to the bulk operations, without repetition
RECURSIVE SetToSeq(_)
SetToSeq(S) ==
    IF S = {} THEN <<>>
    ELSE LET x == CHOOSE y \in S : \A z \in S : y <= z
         IN <<x>> \o SetToSeq(S \ {x})

IdLists == {SetToSeq(S) : S \in {T \in SUBSET Ids : Cardinality(T) \in 1..MaxBulk}}

\* ------------------------------------------------------- the persisted view
\* what TaskStorageService.getTasks reads from the store
PersistedTasks == LSGet(store.tasks, <<>>)

\* what the projects key holds (before getProjects repairs an empty one)
PersistedProjects == LSGet(store.projects, <<>>)

\* ----------------------------------------------------------- handler frame
NoTog == [id |-> 0, n |-> 0, orig |-> NullTask, clean |-> TRUE]

\* a handler's effects on the store, the id generator and the clock
Commit(c) ==
    /\ c.nextId <= MaxId + 1
    /\ store' = [tasks |-> c.tasks, projects |-> c.projects]
    /\ nextId' = c.nextId
    /\ now' = now

\* the record of the handler that ran: its name, whether it returned a
\* success value (a task, true), for a deleteProject that returned true the
\* id it was given and the number of tasks the project had, and whether a
\* write of the handler's own collection failed
Ran(op, id, ok, n, lost) ==
    [op |-> op, id |-> id, ok |-> ok, n |-> n, lost |-> lost]

Init ==
    /\ store = [tasks |-> Entry("missing", <<>>),
                projects |-> Entry("missing", <<>>)]
    /\ nextId = 1
    /\ now = 0
    /\ hookTasks = <<>>
    /\ peerTasks = <<>>
    /\ hookProjects = <<>>
    /\ projectsWithStats = <<>>
    /\ last = Ran("init", 0, FALSE, 0, FALSE)
    /\ tog = NoTog
    /\ filter = DEFAULT_FILTER
    /\ sort = DEFAULT_SORT

\* time passes between two handlers
Tick ==
    /\ now < MaxTime
    /\ now' = now + 1
    /\ last' = Ran("tick", 0, FALSE, 0, FALSE)
    /\ UNCHANGED <<store, nextId, hookTasks, hookProjects,
                 projectsWithStats, tog, filter, sort, peerTasks>>

\* ------------------------------------------------------------------ useTasks
\* loadTasks
LoadTasks ==
    /\ hookTasks' = TS_getTasks(Ctx(<<>>))
    /\ last' = Ran("loadTasks", 0, TRUE, 0, FALSE)
    /\ UNCHANGED <<store, nextId, now, hookProjects, projectsWithStats,
                 tog, filter, sort, peerTasks>>

\* addTask(input)
AddTask(input, w) ==
    \E r \in {TS_addTask(Ctx(w), input)} :
       /\ Len(PersistedTasks) < MaxTasks
       /\ Len(hookTasks) < MaxTasks
       /\ Commit(r.ctx)
       /\ hookTasks' = Append(hookTasks, r.ret)
       /\ last' = Ran("addTask", 0, TRUE, 0,
                      "tasks" \in r.ctx.failed)
       /\ tog' = NoTog
       /\ UNCHANGED <<hookProjects, projectsWithStats, filter, sort, peerTasks>>

\* prev.map(task => task.id === taskId ? updatedTask : task)
ReplaceTask(tasks, taskId, updatedTask) ==
    [i \in 1..Len(tasks) |-> IF tasks[i].id = taskId THEN updatedTask ELSE tasks[i]]

\* updateTask(taskId, updates)
UpdateTask(taskId, updates, w) ==
    \E r \in {TS_updateTask(Ctx(w), taskId, updates)} :
       LET found == r.ret.id # 0
       IN
       /\ Commit(r.ctx)
       /\ hookTasks' = IF found THEN ReplaceTask(hookTasks, taskId, r.ret)
                       ELSE hookTasks
       /\ last' = Ran("updateTask", 0, found, 0,
                      "tasks" \in r.ctx.failed)
       /\ tog' = NoTog
       /\ UNCHANGED <<hookProjects, projectsWithStats, filter, sort, peerTasks>>

\* deleteTask(taskId)
DeleteTask(taskId, w) ==
    \E r \in {TS_deleteTask(Ctx(w), taskId)} :
       /\ Commit(r.ctx)
       /\ hookTasks' = IF r.ret THEN SelectSeq(hookTasks, LAMBDA t : t.id # taskId)
                       ELSE hookTasks
       /\ last' = Ran("deleteTask", 0, r.ret, 0,
                      "tasks" \in r.ctx.failed)
       /\ tog' = NoTog
       /\ UNCHANGED <<hookProjects, projectsWithStats, filter, sort, peerTasks>>

\* the run of toggleTask calls after one more call on taskId
NextTog(taskId, before, found, clean) ==
    IF ~found THEN NoTog
    ELSE IF tog.id = taskId /\ tog.n = 1
         THEN [tog EXCEPT !.n = 2, !.clean = @ /\ clean]
         ELSE [id |-> taskId, n |-> 1, orig |-> before, clean |-> clean]

\* toggleTask(taskId)
ToggleTask(taskId, w) ==
    \E r \in {TS_toggleTask(Ctx(w), taskId)}, idx \in {FindIndex(PersistedTasks, taskId)} :
       LET found == r.ret.id # 0
       IN
       /\ Commit(r.ctx)
       /\ hookTasks' = IF found THEN ReplaceTask(hookTasks, taskId, r.ret)
                       ELSE hookTasks
       /\ last' = Ran("toggleTask", 0, found, 0,
                      "tasks" \in r.ctx.failed)
       /\ tog' = NextTog(taskId, IF found THEN PersistedTasks[idx] ELSE NullTask,
                         found, r.ctx.failed = {})
       /\ UNCHANGED <<hookProjects, projectsWithStats, filter, sort, peerTasks>>

\* clearCompletedTasks()
ClearCompletedTasks(w) ==
    \E r \in {TS_clearCompletedTasks(Ctx(w))} :
       /\ Commit(r.ctx)
       /\ hookTasks' = SelectSeq(hookTasks, LAMBDA t : ~t.completed)
       /\ last' = Ran("clearCompletedTasks", 0, TRUE, 0,
                      "tasks" \in r.ctx.failed)
       /\ tog' = NoTog
       /\ UNCHANGED <<hookProjects, projectsWithStats, filter, sort, peerTasks>>

\* moveTasksToProject(taskIds, projectId)
MoveTasksToProject(taskIds, projectId, w) ==
    \E ids \in {{taskIds[i] : i \in 1..Len(taskIds)}} :
    \E r \in {TS_moveTasksToProject(Ctx(w), ids, projectId)} :
       /\ Commit(r.ctx)
       /\ hookTasks' =
            IF r.ret
            THEN [i \in 1..Len(hookTasks) |->
                    IF hookTasks[i].id \in ids
                    THEN [hookTasks[i] EXCEPT !.projectId = projectId,
                                              !.updatedAt = now]
                    ELSE hookTasks[i]]
            ELSE hookTasks
       /\ last' = Ran("moveTasksToProject", 0, r.ret, 0,
                      "tasks" \in r.ctx.failed)
       /\ tog' = NoTog
       /\ UNCHANGED <<hookProjects, projectsWithStats, filter, sort, peerTasks>>

RECURSIVE BulkUpdateLoop(_, _, _, _)
\* the for loop of bulkUpdateTasks: one updateTask per id, on one updates
\* object; success is false once a call has returned null
BulkUpdateLoop(ctx, taskIds, updates, success) ==
    IF taskIds = <<>>
    THEN [ctx |-> ctx, updates |-> updates, ret |-> success]
    ELSE Bind(TS_updateTask(ctx, Head(taskIds), updates), LAMBDA r :
             BulkUpdateLoop(r.ctx, Tail(taskIds), r.updates,
                            success /\ r.ret.id # 0))

\* bulkUpdateTasks(taskIds, updates)
BulkUpdateTasks(taskIds, updates, w) ==
    \E r \in {BulkUpdateLoop(Ctx(w), taskIds, updates, TRUE)},
       ids \in {{taskIds[i] : i \in 1..Len(taskIds)}} :
       /\ Commit(r.ctx)
       /\ hookTasks' =
            IF r.ret
            THEN [i \in 1..Len(hookTasks) |->
                    IF hookTasks[i].id \in ids
                    THEN MergeTask(hookTasks[i], r.updates, now)
                    ELSE hookTasks[i]]
            ELSE hookTasks
       /\ last' = Ran("bulkUpdateTasks", 0, r.ret, 0,
                      "tasks" \in r.ctx.failed)
       /\ tog' = NoTog
       /\ UNCHANGED <<hookProjects, projectsWithStats, filter, sort, peerTasks>>

RECURSIVE BulkDeleteLoop(_, _, _)
\* the for loop of bulkDeleteTasks: one deleteTask per id, counting the trues
BulkDeleteLoop(ctx, taskIds, deletedCount) ==
    IF taskIds = <<>>
    THEN [ctx |-> ctx, ret |-> deletedCount]
    ELSE Bind(TS_deleteTask(ctx, Head(taskIds)), LAMBDA r :
             BulkDeleteLoop(r.ctx, Tail(taskIds),
                            IF r.ret THEN deletedCount + 1 ELSE deletedCount))

\* bulkDeleteTasks(taskIds)
BulkDeleteTasks(taskIds, w) ==
    \E r \in {BulkDeleteLoop(Ctx(w), taskIds, 0)},
       ids \in {{taskIds[i] : i \in 1..Len(taskIds)}} :
       /\ Commit(r.ctx)
       /\ hookTasks' = SelectSeq(hookTasks, LAMBDA t : t.id \notin ids)
       /\ last' = Ran("bulkDeleteTasks", 0, TRUE, 0,
                      "tasks" \in r.ctx.failed)
       /\ tog' = NoTog
       /\ UNCHANGED <<hookProjects, projectsWithStats, filter, sort, peerTasks>>

\* --------------------------------------------------------------- useProjects
\* projectsWithStats: the projects with the counts that
\* getTaskStatsByProject answers from the store at the time of the render
ProjectsWithStatsOf(projects, ctx) ==
    [i \in 1..Len(projects) |->
        Bind(TS_getTaskStatsByProject(ctx, projects[i].id), LAMBDA taskStats :
            [id |-> projects[i].id,
             taskCount |-> taskStats.total,
             completedCount |-> taskStats.completed,
             pendingCount |-> taskStats.pending])]

\* setProjects(projects) at the end of a handler that leaves the store as
\* in ctx: the render that follows computes projectsWithStats again, its
\* only dependency being the projects state
SetProjects(projects, ctx) ==
    /\ hookProjects' = projects
    /\ projectsWithStats' = ProjectsWithStatsOf(projects, ctx)

\* a handler that does not call setProjects: useMemo hands out the
\* projectsWithStats of the render before
KeepProjects ==
    UNCHANGED <<hookProjects, projectsWithStats>>

\* loadProjects
LoadProjects(w) ==
    \E g \in {PS_getProjects(Ctx(w))} :
       /\ Commit(g.ctx)
       /\ SetProjects(g.ret, g.ctx)
       /\ last' = Ran("loadProjects", 0, TRUE, 0, FALSE)
       /\ tog' = NoTog
       /\ UNCHANGED <<hookTasks, filter, sort, peerTasks>>

\* addProject(input)
AddProject(input, w) ==
    \E r \in {PS_addProject(Ctx(w), input)} :
       /\ Len(PersistedProjects) < MaxProjects
       /\ Len(hookProjects) < MaxProjects
       /\ Commit(r.ctx)
       /\ SetProjects(Append(hookProjects, r.ret), r.ctx)
       /\ last' = Ran("addProject", 0, TRUE, 0,
                      "projects" \in r.ctx.failed)
       /\ tog' = NoTog
       /\ UNCHANGED <<hookTasks, filter, sort, peerTasks>>

\* prev.map(project => project.id === projectId ? updatedProject : project)
ReplaceProject(projects, projectId, updatedProject) ==
    [i \in 1..Len(projects) |->
        IF projects[i].id = projectId THEN updatedProject ELSE projects[i]]

\* updateProject(projectId, updates)
UpdateProject(projectId, updates, w) ==
    \E r \in {PS_updateProject(Ctx(w), projectId, updates)} :
       LET found == r.ret.id # 0
       IN
       /\ Commit(r.ctx)
       /\ IF found
          THEN SetProjects(ReplaceProject(hookProjects, projectId, r.ret), r.ctx)
          ELSE KeepProjects
       /\ last' = Ran("updateProject", 0, found, 0,
                      "projects" \in r.ctx.failed)
       /\ tog' = NoTog
       /\ UNCHANGED <<hookTasks, filter, sort, peerTasks>>

\* the two steps of deleting a project: the tasks are reassigned first and
\* the project is removed only when that answered true
DeleteSteps(ctx, projectId) ==
    Bind(TS_handleProjectDeletion(ctx, projectId), LAMBDA h :
        IF ~h.ret
        THEN [ctx |-> h.ctx, ret |-> FALSE]
        ELSE PS_deleteProject(h.ctx, projectId))

\* the number of stored tasks of a project
TasksIn(projectId) ==
    Cardinality({i \in 1..Len(PersistedTasks) :
                    PersistedTasks[i].projectId = projectId})

\* deleteProject(projectId)
DeleteProject(projectId, w) ==
    \E r \in {DeleteSteps(Ctx(w), projectId)} :
       /\ Commit(r.ctx)
       /\ IF r.ret
          THEN SetProjects(SelectSeq(hookProjects, LAMBDA p : p.id # projectId),
                           r.ctx)
          ELSE KeepProjects
       /\ last' = Ran("deleteProject", IF r.ret THEN projectId ELSE 0, r.ret,
                      IF r.ret THEN TasksIn(projectId) ELSE 0,
                      "projects" \in r.ctx.failed)
       /\ tog' = NoTog
       /\ UNCHANGED <<hookTasks, filter, sort, peerTasks>>

RECURSIVE BulkDeleteProjectsLoop(_, _, _)
\* the for loop of bulkDeleteProjects over the deletable ids
BulkDeleteProjectsLoop(ctx, projectIds, deletedCount) ==
    IF projectIds = <<>>
    THEN [ctx |-> ctx, ret |-> deletedCount]
    ELSE Bind(DeleteSteps(ctx, Head(projectIds)), LAMBDA r :
             BulkDeleteProjectsLoop(r.ctx, Tail(projectIds),
                                    IF r.ret THEN deletedCount + 1 ELSE deletedCount))

\* bulkDeleteProjects(projectIds): the ids the hook's state knows as
\* non-default projects are deleted one by one
BulkDeleteProjects(projectIds, w) ==
    \E deletableIds \in {SelectSeq(projectIds, LAMBDA id :
                               \E i \in 1..Len(hookProjects) :
                                  /\ hookProjects[i].id = id
                                  /\ ~hookProjects[FindIndex(hookProjects, id)].isDefault)} :
    \E r \in {BulkDeleteProjectsLoop(Ctx(w), deletableIds, 0)},
       ids \in {{deletableIds[i] : i \in 1..Len(deletableIds)}} :
       /\ Commit(r.ctx)
       /\ IF r.ret > 0
          THEN SetProjects(SelectSeq(hookProjects, LAMBDA p : p.id \notin ids),
                           r.ctx)
          ELSE KeepProjects
       /\ last' = Ran("bulkDeleteProjects", 0, r.ret > 0, 0, FALSE)
       /\ tog' = NoTog
       /\ UNCHANGED <<hookTasks, filter, sort, peerTasks>>

\* ensureDefaultProject(): when the hook's state holds no default project,
\* a project "Personal" is added and then updated with isDefault true
EnsureDefaultProject(w) ==
    \E a \in {PS_addProject(Ctx(w), [name |-> "Personal", color |-> "blue"])} :
    \E u \in {PS_updateProject(a.ctx, a.ret.id,
                                [keys |-> {"isDefault"}, isDefault |-> TRUE])} :
    LET added == IF u.ret.id # 0 THEN u.ret ELSE a.ret
    IN IF FirstDefault(hookProjects).id # 0
       THEN /\ last' = Ran("ensureDefaultProject", 0, TRUE, 0, FALSE)
            /\ tog' = NoTog
            /\ UNCHANGED <<store, nextId, now, hookTasks, hookProjects,
                 projectsWithStats, filter, sort, peerTasks>>
       ELSE /\ Len(PersistedProjects) < MaxProjects
            /\ Len(hookProjects) < MaxProjects
            /\ Commit(u.ctx)
            /\ SetProjects(Append(hookProjects, added), u.ctx)
            /\ last' = Ran("ensureDefaultProject", 0, TRUE, 0, FALSE)
            /\ tog' = NoTog
            /\ UNCHANGED <<hookTasks, filter, sort, peerTasks>>

\* importProjects(importedProjects): the state is reloaded after a success.
\* A backup holds ids that were generated before it was exported.
ImportProjects(importedProjects, w) ==
    \E r \in {PS_importProjects(Ctx(w), importedProjects)} :
    \E g \in {PS_getProjects(r.ctx)} :
       /\ \A i \in 1..Len(importedProjects) : importedProjects[i].id < nextId
       /\ Commit(IF r.ret THEN g.ctx ELSE r.ctx)
       /\ IF r.ret THEN SetProjects(g.ret, g.ctx) ELSE KeepProjects
       /\ last' = Ran("importProjects", 0, r.ret, 0, FALSE)
       /\ tog' = NoTog
       /\ UNCHANGED <<hookTasks, filter, sort, peerTasks>>

\* clearAllProjects(): the key is removed and the state reloaded, which
\* creates a new default project
ClearAllProjects(w) ==
    \E r \in {PS_clearAllProjects(Ctx(w))} :
    \E g \in {PS_getProjects(r.ctx)} :
       /\ Commit(g.ctx)
       /\ SetProjects(g.ret, g.ctx)
       /\ last' = Ran("clearAllProjects", 0, r.ret, 0, FALSE)
       /\ tog' = NoTog
       /\ UNCHANGED <<hookTasks, filter, sort, peerTasks>>

\* ------------------------------------------------ useTasks in a second tab
\* The handlers of useTasks running in another tab of the same origin: the
\* same calls of TaskStorageService on the same localStorage, the result
\* kept in that tab's own `tasks` state.  A handler runs from its call of
\* the service to its setTasks without the other tab running in between.
PeerRan(c, tasks, op, ok) ==
    /\ Commit(c)
    /\ peerTasks' = tasks
    /\ last' = Ran(op, 0, ok, 0, "tasks" \in c.failed)
    /\ tog' = NoTog
    /\ UNCHANGED <<hookTasks, hookProjects, projectsWithStats, filter, sort>>

\* loadTasks
PeerLoadTasks ==
    \E loadedTasks \in {TS_getTasks(Ctx(<<>>))} :
       PeerRan(Ctx(<<>>), loadedTasks, "peerLoadTasks", TRUE)

\* addTask(input)
PeerAddTask(input, w) ==
    \E r \in {TS_addTask(Ctx(w), input)} :
       /\ Len(PersistedTasks) < MaxTasks
       /\ Len(peerTasks) < MaxTasks
       /\ PeerRan(r.ctx, Append(peerTasks, r.ret), "peerAddTask", TRUE)

\* updateTask(taskId, updates)
PeerUpdateTask(taskId, updates, w) ==
    \E r \in {TS_updateTask(Ctx(w), taskId, updates)} :
       PeerRan(r.ctx,
               IF r.ret.id # 0 THEN ReplaceTask(peerTasks, taskId, r.ret)
               ELSE peerTasks,
               "peerUpdateTask", r.ret.id # 0)

\* deleteTask(taskId)
PeerDeleteTask(taskId, w) ==
    \E r \in {TS_deleteTask(Ctx(w), taskId)} :
       PeerRan(r.ctx,
               IF r.ret THEN SelectSeq(peerTasks, LAMBDA t : t.id # taskId)
               ELSE peerTasks,
               "peerDeleteTask", r.ret)

\* toggleTask(taskId)
PeerToggleTask(taskId, w) ==
    \E r \in {TS_toggleTask(Ctx(w), taskId)} :
       PeerRan(r.ctx,
               IF r.ret.id # 0 THEN ReplaceTask(peerTasks, taskId, r.ret)
               ELSE peerTasks,
               "peerToggleTask", r.ret.id # 0)

\* clearCompletedTasks()
PeerClearCompletedTasks(w) ==
    \E r \in {TS_clearCompletedTasks(Ctx(w))} :
       PeerRan(r.ctx, SelectSeq(peerTasks, LAMBDA t : ~t.completed),
               "peerClearCompletedTasks", TRUE)

\* ------------------------------------------- useTasks: the filtered view
\* The characters of the strings that titles, descriptions, tags and search
\* queries are drawn from
Chars(str) ==
    CASE str = "" -> <<>>
      [] str = "a" -> <<"a">>
      [] str = "A" -> <<"A">>
      [] str = "b" -> <<"b">>
      [] str = "Ab" -> <<"A", "b">>
      [] str = "AB" -> <<"A", "B">>
      [] str = "Work" -> <<"W", "o", "r", "k">>
      [] str = " " -> <<" ">>
      [] str = "personal" -> <<"p", "e", "r", "s", "o", "n", "a", "l">>
      [] str = "Personal" -> <<"P", "e", "r", "s", "o", "n", "a", "l">>
      [] str = "Personal (1)" ->
            <<"P", "e", "r", "s", "o", "n", "a", "l", " ", "(", "1", ")">>
      [] str = "(1)" -> <<"(", "1", ")">>
      [] str = " (1)" -> <<" ", "(", "1", ")">>

\* String.prototype.toLowerCase
ToLowerCase(cs) ==
    [i \in 1..Len(cs) |->
        CASE cs[i] = "A" -> "a"
          [] cs[i] = "B" -> "b"
          [] cs[i] = "W" -> "w"
          [] cs[i] = "P" -> "p"
          [] OTHER -> cs[i]]

\* String.prototype.includes
Includes(cs, query) ==
    \E k \in 0..(Len(cs) - Len(query)) : SubSeq(cs, k + 1, k + Len(query)) = query

\* the search filter: the lower-cased query is looked for in the lower-cased
\* title, description (when there is one) and tags
MatchesSearch(task, f) ==
    \/ f.searchQuery = ""
    \/ Includes(ToLowerCase(Chars(task.title)), ToLowerCase(Chars(f.searchQuery)))
    \/ /\ task.description # NoStr
       /\ Includes(ToLowerCase(Chars(task.description)),
                   ToLowerCase(Chars(f.searchQuery)))
    \/ \E i \in 1..Len(task.tags) :
          Includes(ToLowerCase(Chars(task.tags[i])), ToLowerCase(Chars(f.searchQuery)))

\* the status, priority and project filters
MatchesStatus(task, f) ==
    f.status \in {"", "all"} \/ task.status = f.status

MatchesPriority(task, f) ==
    f.priority \in {"", "all"} \/ task.priority = f.priority

MatchesProject(task, f) ==
    f.projectId \in {0, AllProjects} \/ task.projectId = f.projectId

\* a completed filter that hides completed tasks whatever showCompleted is
MatchesCompleted_always(task, f) ==
    ~task.completed

\* the completed filter: only showCompleted === false hides a task
MatchesCompleted(task, f) ==
    f.showCompleted # FALSE \/ ~task.completed

\* timestamps per calendar day
DayLen == 2

\* getDay() of the day of timestamp 0 (a Thursday; Sunday is 0)
EpochWeekday == 4

\* the timestamp itself in place of its calendar day
DayOf_exact(timestamp) == timestamp

\* new Date(d.getFullYear(), d.getMonth(), d.getDate()): the calendar day
DayOf(timestamp) == timestamp \div DayLen

\* Date.prototype.getDay of a calendar day
GetDay(day) == (day + EpochWeekday) % 7

\* a week that ends with its Saturday
ThisWeekEnd_saturday(today) == today + (6 - GetDay(today))

\* thisWeekEnd = today + (7 - today.getDay())
ThisWeekEnd(today) == today + (7 - GetDay(today))

\* nextWeekEnd = thisWeekEnd + 7
NextWeekEnd(today) == ThisWeekEnd(today) + 7

\* the due-date filter at time `at`: a task without a due date passes the
\* noDueDate bucket only
MatchesDueDate(task, f, at) ==
    IF f.dueDate \in {"", "all"} THEN TRUE
    ELSE IF task.dueDate = NoDate THEN f.dueDate = "noDueDate"
    ELSE CASE f.dueDate = "today" -> DayOf(task.dueDate) = DayOf(at)
           [] f.dueDate = "tomorrow" -> DayOf(task.dueDate) = DayOf(at) + 1
           [] f.dueDate = "thisWeek" ->
                 /\ DayOf(task.dueDate) >= DayOf(at)
                 /\ DayOf(task.dueDate) <= ThisWeekEnd(DayOf(at))
           [] f.dueDate = "nextWeek" ->
                 /\ DayOf(task.dueDate) > ThisWeekEnd(DayOf(at))
                 /\ DayOf(task.dueDate) <= NextWeekEnd(DayOf(at))
           [] f.dueDate = "overdue" ->
                 DayOf(task.dueDate) < DayOf(at) /\ ~task.completed
           [] f.dueDate = "noDueDate" -> FALSE
           [] OTHER -> TRUE

\* a tags filter asking for every tag of the filter
MatchesTags_every(task, f) ==
    \A i \in 1..Len(f.tags) : \E j \in 1..Len(task.tags) : f.tags[i] = task.tags[j]

\* the tags filter: some tag of the filter is a tag of the task
MatchesTags(task, f) ==
    \/ Len(f.tags) = 0
    \/ \E i \in 1..Len(f.tags), j \in 1..Len(task.tags) : f.tags[i] = task.tags[j]

\* a filter step that also drops the first task it keeps
FilterStep_dropFirst(tasks, f, at) ==
    Bind(SelectSeq(tasks, LAMBDA t :
            /\ MatchesSearch(t, f) /\ MatchesStatus(t, f) /\ MatchesPriority(t, f)
            /\ MatchesProject(t, f) /\ MatchesCompleted(t, f)
            /\ MatchesDueDate(t, f, at) /\ MatchesTags(t, f)), LAMBDA kept :
        IF kept = <<>> THEN kept ELSE Tail(kept))

\* the filter step of filteredAndSortedTasks: one Array.prototype.filter
\* per filter, each on the result of the one before
FilterStep(tasks, f, at) ==
    SelectSeq(
     SelectSeq(
      SelectSeq(
       SelectSeq(
        SelectSeq(
         SelectSeq(
          SelectSeq(tasks, LAMBDA t : MatchesSearch(t, f)),
          LAMBDA t : MatchesStatus(t, f)),
         LAMBDA t : MatchesPriority(t, f)),
        LAMBDA t : MatchesProject(t, f)),
       LAMBDA t : MatchesCompleted(t, f)),
      LAMBDA t : MatchesDueDate(t, f, at)),
     LAMBDA t : MatchesTags(t, f))

\* updateFilter(newFilter): { ...prev, ...newFilter }
UpdateFilter(newFilter) ==
    /\ filter' = [k \in DOMAIN filter |->
                    IF k \in DOMAIN newFilter THEN newFilter[k] ELSE filter[k]]
    /\ last' = Ran("updateFilter", 0, TRUE, 0, FALSE)
    /\ tog' = NoTog
    /\ UNCHANGED <<store, nextId, now, hookTasks, hookProjects,
                 projectsWithStats, sort, peerTasks>>

\* the updater of updateFilter: (prev) => ({ ...prev, ...newFilter })
FilterUpdater(prev, newFilter) ==
    [k \in DOMAIN prev |-> IF k \in DOMAIN newFilter THEN newFilter[k] ELSE prev[k]]

RECURSIVE SetValueCalls(_, _, _)
\* setValue(updater) called once per element of newFilters by one event
\* handler, before the component renders again: every call applies its
\* updater to storedValue, the state of the render that made this setValue,
\* and hands the result to LocalStorageService.set and setStoredValue; the
\* state of the next render is the value of the last call
SetValueCalls(storedValue, valueToStore, newFilters) ==
    IF newFilters = <<>> THEN valueToStore
    ELSE SetValueCalls(storedValue, FilterUpdater(storedValue, Head(newFilters)),
                       Tail(newFilters))

\* an event handler that calls updateFilter(first) and then
\* updateFilter(second)
UpdateFilterTwice(first, second) ==
    /\ filter' = SetValueCalls(filter, filter, <<first, second>>)
    /\ last' = Ran("updateFilterTwice", 0, TRUE, 0, FALSE)
    /\ tog' = NoTog
    /\ UNCHANGED <<store, nextId, now, hookTasks, hookProjects, projectsWithStats,
                   sort, peerTasks>>

\* clearFilters()
ClearFilters ==
    /\ filter' = DEFAULT_FILTER
    /\ last' = Ran("clearFilters", 0, TRUE, 0, FALSE)
    /\ tog' = NoTog
    /\ UNCHANGED <<store, nextId, now, hookTasks, hookProjects,
                 projectsWithStats, sort, peerTasks>>

\* ------------------------------------------------------ useTasks: stats
\* the current instant in place of the first instant of today
StartOfDay_now(timestamp) == timestamp

\* today = new Date(y, m, d): the first instant of the day of `timestamp`
StartOfDay(timestamp) == DayOf(timestamp) * DayLen

\* the counts of stats over `tasks` at the time `at`: overdue compares the
\* due date with the first instant of today
StatsOf(tasks, at) ==
    [total |-> Len(tasks),
     completed |-> Len(SelectSeq(tasks, LAMBDA t : t.completed)),
     pending |-> Len(SelectSeq(tasks, LAMBDA t : ~t.completed)),
     overdue |-> Len(SelectSeq(tasks, LAMBDA t :
                    t.dueDate # NoDate /\ t.dueDate < StartOfDay(at) /\ ~t.completed)),
     highPriority |-> Len(SelectSeq(tasks, LAMBDA t :
                    t.priority = "high" /\ ~t.completed))]

\* stats of useTasks
Stats == StatsOf(hookTasks, now)

\* --------------------------------------------- useTasks: the sorted view
\* UTF-16 code units of the characters of Chars, in their order
CharCode(c) ==
    CASE c = "A" -> 65 [] c = "B" -> 66 [] c = "W" -> 87
      [] c = "a" -> 97 [] c = "b" -> 98 [] c = "k" -> 107
      [] c = "o" -> 111 [] c = "r" -> 114 [] c = "w" -> 119

\* a < b on strings: the first differing code unit decides, a proper prefix
\* is smaller
StringLess(a, b) ==
    \E k \in 0..Len(a) :
        /\ k <= Len(b)
        /\ \A i \in 1..k : a[i] = b[i]
        /\ IF k = Len(a) THEN k < Len(b)
           ELSE k < Len(b) /\ CharCode(a[k + 1]) < CharCode(b[k + 1])

\* Infinity, above every timestamp
Infinity == 1000000

\* priorities ranked by their names
PriorityOrder_byName(priority) ==
    CASE priority = "high" -> 1 [] priority = "low" -> 2 [] priority = "medium" -> 3

\* priorityOrder and statusOrder
PriorityOrder(priority) ==
    CASE priority = "high" -> 3 [] priority = "medium" -> 2 [] priority = "low" -> 1

StatusOrder(status) ==
    CASE status = "todo" -> 1 [] status = "in_progress" -> 2 [] status = "completed" -> 3

\* aValue / bValue of the comparator for the numeric sort keys; a missing
\* due date and the due date of timestamp 0 (falsy) count as Infinity
SortValue(task, sortBy) ==
    CASE sortBy = "createdDate" -> task.createdAt
      [] sortBy = "updatedDate" -> task.updatedAt
      [] sortBy = "dueDate" -> IF task.dueDate = NoDate \/ task.dueDate = 0
                               THEN Infinity ELSE task.dueDate
      [] sortBy = "priority" -> PriorityOrder(task.priority)
      [] sortBy = "status" -> StatusOrder(task.status)
      [] OTHER -> task.createdAt

\* aValue < bValue
ValueLess(a, b, sortBy) ==
    IF sortBy = "title"
    THEN StringLess(ToLowerCase(Chars(a.title)), ToLowerCase(Chars(b.title)))
    ELSE SortValue(a, sortBy) < SortValue(b, sortBy)

\* the comparator handed to Array.prototype.sort
Compare(a, b, srt) ==
    IF ValueLess(a, b, srt.sortBy) THEN (IF srt.direction = "asc" THEN 0 - 1 ELSE 1)
    ELSE IF ValueLess(b, a, srt.sortBy) THEN (IF srt.direction = "asc" THEN 1 ELSE 0 - 1)
    ELSE 0

\* one step of a stable sort: x goes behind the elements that do not
\* compare greater than it
InsertSorted(sorted, x, srt) ==
    Bind(CHOOSE k \in 0..Len(sorted) :
            /\ \A j \in (k + 1)..Len(sorted) : Compare(sorted[j], x, srt) > 0
            /\ k = 0 \/ Compare(sorted[k], x, srt) <= 0, LAMBDA k :
        SubSeq(sorted, 1, k) \o <<x>> \o SubSeq(sorted, k + 1, Len(sorted)))

RECURSIVE SortFrom(_, _, _)
\* Array.prototype.sort(comparator), which is stable
SortFrom(sorted, rest, srt) ==
    IF rest = <<>> THEN sorted
    ELSE SortFrom(InsertSorted(sorted, Head(rest), srt), Tail(rest), srt)

\* the same sort for ascending, and the ascending order reversed for
\* descending
SortStep_reversed(tasks, srt) ==
    Bind(SortFrom(<<>>, tasks, [srt EXCEPT !.direction = "asc"]), LAMBDA asc :
        IF srt.direction = "asc" THEN asc
        ELSE [i \in 1..Len(asc) |-> asc[Len(asc) + 1 - i]])

\* the sort step of filteredAndSortedTasks
SortStep(tasks, srt) ==
    SortFrom(<<>>, tasks, srt)

\* filteredAndSortedTasks
FilteredAndSortedTasks ==
    SortStep(FilterStep(hookTasks, filter, now), sort)

\* `let filtered = tasks`: the tasks array itself
CopyOfTasks_same == [array |-> hookTasks, isTasks |-> TRUE]

\* `let filtered = [...tasks]`: a new array with the elements of tasks
CopyOfTasks == [array |-> hookTasks, isTasks |-> FALSE]

\* whether a filter of the filter step runs, each run answering a new array
FilterRuns(f) ==
    \/ f.searchQuery # ""
    \/ f.status \notin {"", "all"}
    \/ f.priority \notin {"", "all"}
    \/ f.projectId \notin {0, AllProjects}
    \/ f.showCompleted = FALSE
    \/ f.dueDate \notin {"", "all"}
    \/ Len(f.tags) > 0

\* the callback of the filteredAndSortedTasks memo, run by a render:
\* `filtered` is filtered and then sorted in place, which reorders the tasks
\* state too when `filtered` is that very array
RenderView ==
    \E filtered \in {CopyOfTasks} :
    \E sorted \in {SortStep(FilterStep(filtered.array, filter, now), sort)} :
       /\ hookTasks' = IF filtered.isTasks /\ ~FilterRuns(filter)
                       THEN sorted ELSE hookTasks
       /\ last' = Ran("renderView", 0, TRUE, Len(sorted), FALSE)
       /\ tog' = NoTog
       /\ UNCHANGED <<store, nextId, now, hookProjects, projectsWithStats, filter,
                      sort, peerTasks>>

\* updateSort(newSort): { ...prev, ...newSort }
UpdateSort(newSort) ==
    /\ sort' = [k \in DOMAIN sort |->
                  IF k \in DOMAIN newSort THEN newSort[k] ELSE sort[k]]
    /\ last' = Ran("updateSort", 0, TRUE, 0, FALSE)
    /\ tog' = NoTog
    /\ UNCHANGED <<store, nextId, now, hookTasks, hookProjects,
                 projectsWithStats, filter, peerTasks>>

\* resetSort()
ResetSort ==
    /\ sort' = DEFAULT_SORT
    /\ last' = Ran("resetSort", 0, TRUE, 0, FALSE)
    /\ tog' = NoTog
    /\ UNCHANGED <<store, nextId, now, hookTasks, hookProjects,
                 projectsWithStats, filter, peerTasks>>

\* Partial<TaskFilter> and Partial<TaskSort> values
FilterUpdates ==
    [searchQuery : {"", "a", "AB"}]
    \cup [status : {"all", "todo", "in_progress", "completed"}]
    \cup [priority : {"all", "high", "medium", "low"}]
    \cup [projectId : {AllProjects} \cup 1..MaxId]
    \cup [dueDate : {"all", "today", "tomorrow", "thisWeek", "nextWeek",
                     "overdue", "noDueDate"}]
    \cup [tags : {<<>>, <<"a">>, <<"a", "b">>}]
    \cup [showCompleted : BOOLEAN]

SortUpdates ==
    [sortBy : {"createdDate", "updatedDate", "dueDate", "title", "priority",
               "status"}]
    \cup [direction : {"asc", "desc"}]

\* ------------------------------------------- useProjects: project names
\* the largest counter the loop of getProjectNameSuggestion is followed to
MaxCounter == 4

RECURSIVE TrimStart(_)
\* String.prototype.trim, the leading white space
TrimStart(cs) ==
    IF cs # <<>> /\ Head(cs) = " " THEN TrimStart(Tail(cs)) ELSE cs

RECURSIVE TrimEnd(_)
\* String.prototype.trim, the trailing white space
TrimEnd(cs) ==
    IF cs # <<>> /\ cs[Len(cs)] = " " THEN TrimEnd(SubSeq(cs, 1, Len(cs) - 1))
    ELSE cs

\* String.prototype.trim
Trim(cs) == TrimEnd(TrimStart(cs))

\* `${counter}` for the counters the loop is followed to
Decimal(n) ==
    CASE n = 1 -> <<"1">> [] n = 2 -> <<"2">> [] n = 3 -> <<"3">>
      [] n = 4 -> <<"4">> [] n = 5 -> <<"5">>

\* validateProjectName(name, excludeId): the trimmed name is not empty and no
\* project other than excludeId has its lower-cased form as lower-cased
\* name; the names of the projects are compared as they are stored
ValidateProjectName(projects, name, excludeId) ==
    /\ Trim(name) # <<>>
    /\ ~\E i \in 1..Len(projects) :
          /\ ToLowerCase(Chars(projects[i].name)) = ToLowerCase(Trim(name))
          /\ projects[i].id # excludeId

RECURSIVE SuggestionLoop(_, _, _, _)
\* the while loop of getProjectNameSuggestion, followed while the counter is
\* at most MaxCounter; done tells whether the loop was left
SuggestionLoop(projects, trimmedName, suggestion, counter) ==
    IF ValidateProjectName(projects, suggestion, 0)
    THEN [done |-> TRUE, suggestion |-> suggestion, counter |-> counter]
    ELSE IF counter > MaxCounter
    THEN [done |-> FALSE, suggestion |-> suggestion, counter |-> counter]
    ELSE SuggestionLoop(projects, trimmedName,
                        trimmedName \o <<" ", "(">> \o Decimal(counter) \o <<")">>,
                        counter + 1)

\* getProjectNameSuggestion(baseName) over the projects of the hook
GetProjectNameSuggestion(baseName) ==
    SuggestionLoop(hookProjects, Trim(Chars(baseName)), Trim(Chars(baseName)), 1)

\* a component asks for a suggestion; n of the record is the counter the
\* loop ended with
SuggestName(baseName) ==
    \E r \in {GetProjectNameSuggestion(baseName)} :
       /\ last' = Ran("getProjectNameSuggestion", 0, r.done, r.counter, FALSE)
       /\ tog' = NoTog
       /\ UNCHANGED <<store, nextId, now, hookTasks, hookProjects,
                      projectsWithStats, filter, sort, peerTasks>>

\* the base names a suggestion is asked for
BaseNames == {"", " ", "Work", "personal"}

\* -------------------------------------------------------------- the system
\* Every handler with every argument of the input domains.  The scenarios
\* below take some of these handlers with some of these arguments, so each
\* of their behaviours is a behaviour of Spec.
Next ==
    \/ Tick
    \/ LoadTasks
    \/ \E input \in TaskInputs, w \in WriteOutcomes : AddTask(input, w)
    \/ \E id \in Ids, u \in TaskUpdates, w \in WriteOutcomes : UpdateTask(id, u, w)
    \/ \E id \in Ids, w \in WriteOutcomes : DeleteTask(id, w)
    \/ \E id \in Ids, w \in WriteOutcomes : ToggleTask(id, w)
    \/ \E w \in WriteOutcomes : ClearCompletedTasks(w)
    \/ \E ids \in IdLists, p \in Ids, w \in WriteOutcomes :
            MoveTasksToProject(ids, p, w)
    \/ \E ids \in IdLists, u \in TaskUpdates, w \in WriteOutcomes :
            BulkUpdateTasks(ids, u, w)
    \/ \E ids \in IdLists, w \in WriteOutcomes : BulkDeleteTasks(ids, w)
    \/ \E w \in WriteOutcomes : LoadProjects(w)
    \/ \E input \in ProjectInputs, w \in WriteOutcomes : AddProject(input, w)
    \/ \E id \in Ids, u \in ProjectUpdates, w \in WriteOutcomes :
            UpdateProject(id, u, w)
    \/ \E id \in Ids, w \in WriteOutcomes : DeleteProject(id, w)
    \/ \E ids \in IdLists, w \in WriteOutcomes : BulkDeleteProjects(ids, w)
    \/ \E w \in WriteOutcomes : EnsureDefaultProject(w)
    \/ \E l \in ImportLists, w \in WriteOutcomes : ImportProjects(l, w)
    \/ \E w \in WriteOutcomes : ClearAllProjects(w)
    \/ \E f \in FilterUpdates : UpdateFilter(f)
    \/ \E f1, f2 \in FilterUpdates : UpdateFilterTwice(f1, f2)
    \/ ClearFilters
    \/ \E o \in SortUpdates : UpdateSort(o)
    \/ ResetSort
    \/ RenderView
    \/ PeerLoadTasks
    \/ \E input \in TaskInputs, w \in WriteOutcomes : PeerAddTask(input, w)
    \/ \E id \in Ids, u \in TaskUpdates, w \in WriteOutcomes : PeerUpdateTask(id, u, w)
    \/ \E id \in Ids, w \in WriteOutcomes : PeerDeleteTask(id, w)
    \/ \E id \in Ids, w \in WriteOutcomes : PeerToggleTask(id, w)
    \/ \E w \in WriteOutcomes : PeerClearCompletedTasks(w)
    \/ \E baseName \in BaseNames : SuggestName(baseName)

Spec == Init /\ [][Next]_vars

\* ------------------------------------------------------- project scenarios
\* The handlers of useProjects, with tasks created through useTasks.addTask
\* in the default project or in the project of a given id; the clock stands
\* still.
ScenarioTaskInputs ==
    [title : {"a"}, description : {NoStr}, priority : {""},
     projectId : {0, 2}, dueDate : {NoDate}, tags : {<<>>}]

ScenarioImportLists ==
    {<<>>, <<ImportedProject(2, FALSE)>>,
     <<ImportedProject(1, TRUE), ImportedProject(2, TRUE)>>}

ScenarioProjectInputs == [name : {"Personal"}, color : {""}]

NextProjects ==
    \/ \E input \in ScenarioTaskInputs, w \in WriteOutcomes : AddTask(input, w)
    \/ \E w \in WriteOutcomes : LoadProjects(w)
    \/ \E input \in ScenarioProjectInputs, w \in WriteOutcomes : AddProject(input, w)
    \/ \E id \in Ids, u \in ProjectUpdates, w \in WriteOutcomes :
            UpdateProject(id, u, w)
    \/ \E id \in Ids, w \in WriteOutcomes : DeleteProject(id, w)
    \/ \E ids \in IdLists, w \in WriteOutcomes : BulkDeleteProjects(ids, w)
    \/ \E w \in WriteOutcomes : EnsureDefaultProject(w)
    \/ \E l \in ScenarioImportLists, w \in WriteOutcomes : ImportProjects(l, w)
    \/ \E w \in WriteOutcomes : ClearAllProjects(w)

SpecProjects == Init /\ [][NextProjects]_vars

\* ---------------------------------------------------------- task scenarios
\* The handlers of useTasks on a store whose projects are the ones the
\* service creates by itself; tasks are created with a title and without a
\* project, and updated to completed or in progress; the clock stands still.
TaskScenarioInputs ==
    {i \in TaskInputs : i.projectId = 0 /\ i.title = "a"}

TaskScenarioUpdates ==
    [keys : {{"completed"}}, completed : {TRUE}]
    \cup [keys : {{"status"}}, status : {"in_progress", "completed"}]

NextTasks ==
    \/ LoadTasks
    \/ \E input \in TaskScenarioInputs, w \in WriteOutcomes : AddTask(input, w)
    \/ \E id \in Ids, u \in TaskScenarioUpdates, w \in WriteOutcomes :
            UpdateTask(id, u, w)
    \/ \E id \in Ids, w \in WriteOutcomes : DeleteTask(id, w)
    \/ \E id \in Ids, w \in WriteOutcomes : ToggleTask(id, w)
    \/ \E w \in WriteOutcomes : ClearCompletedTasks(w)

SpecTasks == Init /\ [][NextTasks]_vars

\* Task creation with every input of TaskInputs, next to the creation of
\* projects and the removal of tasks; the clock stands still.
NextAdd ==
    \/ LoadTasks
    \/ \E input \in TaskInputs, w \in WriteOutcomes : AddTask(input, w)
    \/ \E id \in Ids, w \in WriteOutcomes : DeleteTask(id, w)
    \/ \E w \in WriteOutcomes : LoadProjects(w)
    \/ \E input \in ProjectInputs, w \in WriteOutcomes : AddProject(input, w)

SpecAdd == Init /\ [][NextAdd]_vars

\* Project deletion while the clock advances, with tasks created in the
\* default project or in the project of a given id.
NextClock ==
    \/ Tick
    \/ \E input \in ScenarioTaskInputs, w \in WriteOutcomes : AddTask(input, w)
    \/ \E w \in WriteOutcomes : LoadProjects(w)
    \/ \E input \in ProjectInputs, w \in WriteOutcomes : AddProject(input, w)
    \/ \E id \in Ids, w \in WriteOutcomes : DeleteProject(id, w)

SpecClock == Init /\ [][NextClock]_vars


\* ======================================================== task invariants
\* C1: every persisted task is completed exactly when its status is
\* "completed"
C1_CompletedIffStatus ==
    \A i \in 1..Len(PersistedTasks) :
        PersistedTasks[i].completed <=> (PersistedTasks[i].status = "completed")

\* a task with every field but updatedAt
WithoutUpdatedAt(task) ==
    [task EXCEPT !.updatedAt = 0]

\* C7: after two toggleTask calls in a row on a task, with every write
\* done, the stored task equals the task before the first call in every
\* field but updatedAt
C7_ToggleTwice ==
    (tog.n = 2 /\ tog.clean) =>
        \E i \in 1..Len(PersistedTasks) :
            /\ PersistedTasks[i].id = tog.id
            /\ WithoutUpdatedAt(PersistedTasks[i]) = WithoutUpdatedAt(tog.orig)

\* the repository operations that change a collection
MutatingOps ==
    {"addTask", "updateTask", "toggleTask", "deleteTask", "clearCompletedTasks",
     "moveTasksToProject", "addProject", "updateProject", "deleteProject"}

\* C8: a mutating operation during which a write of its collection failed
\* does not return a success value
C8_FailureReported ==
    (last.op \in MutatingOps /\ last.lost) => ~last.ok

\* ========================================================== task creation
\* C9: addTask with an empty title returns a failure and leaves the stored
\* tasks as they were
C9_EmptyTitleRejected ==
    [][\A input \in TaskInputs, w \in WriteOutcomes :
          (input.title = "" /\ AddTask(input, w)) =>
             /\ ~last'.ok
             /\ PersistedTasks' = PersistedTasks]_vars

\* C10: addTask appends the task it returns to the stored tasks; the task
\* has status todo, completed false, the priority of the input or medium,
\* equal createdAt and updatedAt, and the projectId of the input when a
\* stored project has that id and else the id of the stored default project
C10_AddTaskResult ==
    [][\A input \in TaskInputs, w \in WriteOutcomes :
          AddTask(input, w) =>
             \A t \in {TS_addTask(Ctx(w), input).ret} :
                /\ PersistedTasks' = Append(PersistedTasks, t)
                /\ t.status = "todo"
                /\ ~t.completed
                /\ t.priority = IF input.priority = "" THEN "medium"
                                ELSE input.priority
                /\ t.createdAt = t.updatedAt
                /\ t.projectId \in IdsOf(PersistedProjects')
                /\ t.projectId =
                      IF input.projectId \in IdsOf(PersistedProjects')
                      THEN input.projectId
                      ELSE FirstDefault(PersistedProjects').id]_vars

\* ===================================================== project invariants
\* the number of stored projects flagged as default
DefaultCount ==
    Cardinality({i \in 1..Len(PersistedProjects) : PersistedProjects[i].isDefault})

\* C2: whenever the persisted project collection is non-empty, exactly one
\* of its projects has isDefault true
C2_ExactlyOneDefault ==
    Len(PersistedProjects) > 0 => DefaultCount = 1

\* C3: the projectId of every persisted task is the id of a project of the
\* persisted project collection
C3_ProjectIdResolves ==
    \A i \in 1..Len(PersistedTasks) :
        PersistedTasks[i].projectId \in IdsOf(PersistedProjects)

\* ======================================================= project deletion
\* C4: a deleteProject(id) that returned true leaves every task that was in
\* project id in the default project, leaves the projectId of every other
\* task as it was, and leaves no project id in the persisted collection
C4_DeleteReassigns ==
    [][(last'.op = "deleteProject" /\ last'.ok) =>
          LET id == last'.id
              d == FirstDefault(PersistedProjects')
          IN /\ d.isDefault
             /\ d.id # id
             /\ id \notin IdsOf(PersistedProjects')
             /\ Len(PersistedTasks') = Len(PersistedTasks)
             /\ \A i \in 1..Len(PersistedTasks) :
                   /\ PersistedTasks'[i].id = PersistedTasks[i].id
                   /\ PersistedTasks'[i].projectId =
                         IF PersistedTasks[i].projectId = id
                         THEN d.id
                         ELSE PersistedTasks[i].projectId]_vars

\* a deleteProject returned true for a project that had tasks
C4_Witness ==
    last.op = "deleteProject" /\ last.ok /\ last.n > 0

\* C5: after deleteProject(id) on a stored project that is not the default
\* one, either no task is left in project id and the project is gone, or the
\* stored tasks are what they were and the project is still stored
C5_DeleteAllOrNothing ==
    [][\A id \in Ids, w \in WriteOutcomes :
          (/\ DefaultCount = 1
           /\ \E i \in 1..Len(PersistedProjects) :
                 /\ PersistedProjects[i].id = id
                 /\ ~PersistedProjects[i].isDefault
           /\ DeleteProject(id, w)) =>
             \/ /\ \A i \in 1..Len(PersistedTasks') :
                      PersistedTasks'[i].projectId # id
                /\ id \notin IdsOf(PersistedProjects')
             \/ /\ PersistedTasks' = PersistedTasks
                /\ id \in IdsOf(PersistedProjects')]_vars

\* C6: deleteProject(id) on the stored default project returns false, in the
\* service and in the hook, and leaves the stored projects and the stored
\* tasks as they were
C6_DefaultDeleteNoOp ==
    [][\A id \in Ids, w \in WriteOutcomes :
          (/\ \E i \in 1..Len(PersistedProjects) :
                 /\ PersistedProjects[i].id = id
                 /\ PersistedProjects[i].isDefault
           /\ DeleteProject(id, w)) =>
             /\ ~PS_deleteProject(Ctx(w), id).ret
             /\ ~last'.ok
             /\ PersistedProjects' = PersistedProjects
             /\ PersistedTasks' = PersistedTasks]_vars

\* ------------------------------------------------- scenarios of the views
\* Every write of these scenarios is stored.
NoFaults == [i \in 1..MaxWriteFaults |-> TRUE]

\* the clock at construction: any time of the first MaxStartDay days
MaxStartDay == 7

StartTimes == 0..(DayLen * MaxStartDay + DayLen - 1)

InitAt ==
    /\ store = [tasks |-> Entry("missing", <<>>),
                projects |-> Entry("missing", <<>>)]
    /\ nextId = 1
    /\ now \in StartTimes
    /\ hookTasks = <<>>
    /\ peerTasks = <<>>
    /\ hookProjects = <<>>
    /\ projectsWithStats = <<>>
    /\ last = Ran("init", 0, FALSE, 0, FALSE)
    /\ tog = NoTog
    /\ filter = DEFAULT_FILTER
    /\ sort = DEFAULT_SORT

\* Filters: two kinds of task, a few values of every filter field, the
\* clock within the first two days.
FilterScenarioInputs ==
    {[title |-> "Ab", description |-> NoStr, priority |-> "high", projectId |-> 0,
      dueDate |-> NoDate, tags |-> <<"a">>],
     [title |-> "b", description |-> "AB", priority |-> "", projectId |-> 0,
      dueDate |-> DayLen, tags |-> <<>>]}

FilterScenarioUpdates ==
    [searchQuery : {"", "a"}]
    \cup [status : {"all", "completed"}]
    \cup [priority : {"all", "high"}]
    \cup [projectId : {AllProjects, 1}]
    \cup [dueDate : {"all", "today", "noDueDate"}]
    \cup [tags : {<<>>, <<"a">>}]
    \cup [showCompleted : BOOLEAN]

InitFilter == InitAt /\ now \in {DayLen, DayLen + 1}

NextFilter ==
    \/ \E input \in FilterScenarioInputs : AddTask(input, NoFaults)
    \/ \E id \in Ids : ToggleTask(id, NoFaults)
    \/ \E f \in FilterScenarioUpdates : UpdateFilter(f)
    \/ ClearFilters

SpecFilter == InitFilter /\ [][NextFilter]_vars


\* Overdue tasks: two tasks due on one of the first MaxDueDay days or never,
\* the clock on the second or third day.
MaxDueDay == 3

DueScenarioInputs ==
    [title : {"a"}, description : {NoStr}, priority : {""}, projectId : {0},
     dueDate : {NoDate} \cup 0..(DayLen * MaxDueDay + DayLen - 1), tags : {<<>>}]

DueScenarioUpdates ==
    [dueDate : {"all", "overdue"}] \cup [showCompleted : BOOLEAN]

InitDue == InitAt /\ DayOf(now) \in {1, 2}

NextDue ==
    \/ \E input \in DueScenarioInputs : AddTask(input, NoFaults)
    \/ \E id \in Ids : ToggleTask(id, NoFaults)
    \/ \E f \in DueScenarioUpdates : UpdateFilter(f)

SpecDue == InitDue /\ [][NextDue]_vars

\* Weeks: one task due on one of the first MaxWeekDueDay days or never, the
\* clock at any start time, so that today is every day of the week.
MaxWeekDueDay == 18

WeekScenarioInputs ==
    [title : {"a"}, description : {NoStr}, priority : {""}, projectId : {0},
     dueDate : {NoDate} \cup 0..(DayLen * MaxWeekDueDay + DayLen - 1),
     tags : {<<>>}]

WeekScenarioUpdates ==
    [dueDate : {"all", "thisWeek", "nextWeek"}]

\* addTask on the empty collection
AddFirstTask(input) ==
    hookTasks = <<>> /\ AddTask(input, NoFaults)

NextWeek ==
    \/ \E input \in WeekScenarioInputs : AddFirstTask(input)
    \/ \E f \in WeekScenarioUpdates : UpdateFilter(f)

SpecWeek == InitAt /\ [][NextWeek]_vars

\* Tags: two tasks with none, one or two of the tags "a" and "b", the same
\* choice for the filter.
TagLists == {<<>>, <<"a">>, <<"b">>, <<"a", "b">>}

TagScenarioInputs ==
    [title : {"a"}, description : {NoStr}, priority : {""}, projectId : {0},
     dueDate : {NoDate}, tags : TagLists]

TagScenarioUpdates == [tags : TagLists]

NextTags ==
    \/ \E input \in TagScenarioInputs : AddTask(input, NoFaults)
    \/ \E id \in Ids : DeleteTask(id, NoFaults)
    \/ \E f \in TagScenarioUpdates : UpdateFilter(f)
    \/ ClearFilters

SpecTags == Init /\ [][NextTags]_vars

\* Sorting: two tasks out of four kinds that tie on some keys and differ on
\* others, created at the same time or not, toggled or not, under every
\* sort.
SortScenarioInputs ==
    {[title |-> "Ab", description |-> NoStr, priority |-> "", projectId |-> 0,
      dueDate |-> NoDate, tags |-> <<>>],
     [title |-> "AB", description |-> NoStr, priority |-> "high", projectId |-> 0,
      dueDate |-> 0, tags |-> <<>>],
     [title |-> "b", description |-> NoStr, priority |-> "", projectId |-> 0,
      dueDate |-> DayLen, tags |-> <<>>],
     [title |-> "a", description |-> NoStr, priority |-> "high", projectId |-> 0,
      dueDate |-> DayLen, tags |-> <<>>]}

NextSort ==
    \/ Tick
    \/ \E input \in SortScenarioInputs : AddTask(input, NoFaults)
    \/ \E id \in Ids : ToggleTask(id, NoFaults)
    \/ \E o \in SortUpdates : UpdateSort(o)
    \/ ResetSort

SpecSort == Init /\ [][NextSort]_vars

\* Ordinals: two tasks of any priority, moved to any status, sorted by
\* priority or status in either direction.
OrderScenarioInputs ==
    [title : {"a"}, description : {NoStr}, priority : {"low", "", "high"},
     projectId : {0}, dueDate : {NoDate}, tags : {<<>>}]

OrderScenarioUpdates ==
    [keys : {{"status"}}, status : {"todo", "in_progress", "completed"}]

OrderScenarioSorts ==
    [sortBy : {"priority", "status"}] \cup [direction : {"asc", "desc"}]

NextOrder ==
    \/ \E input \in OrderScenarioInputs : AddTask(input, NoFaults)
    \/ \E id \in Ids, u \in OrderScenarioUpdates : UpdateTask(id, u, NoFaults)
    \/ \E o \in OrderScenarioSorts : UpdateSort(o)

SpecOrder == Init /\ [][NextOrder]_vars

\* Statistics: a second project or not, tasks of either priority in either
\* project, due yesterday, at either instant of today, tomorrow or never,
\* toggled or not, the clock at either instant of the second day.
StatsScenarioInputs ==
    [title : {"a"}, description : {NoStr}, priority : {"", "high"},
     projectId : {0, 2},
     dueDate : {NoDate, 0, DayLen, DayLen + 1, 2 * DayLen}, tags : {<<>>}]

InitStats == InitAt /\ DayOf(now) = 1

NextStats ==
    \/ \E w \in {NoFaults} : LoadProjects(w)
    \/ \E input \in ScenarioProjectInputs : AddProject(input, NoFaults)
    \/ \E input \in StatsScenarioInputs : AddTask(input, NoFaults)
    \/ \E id \in Ids : ToggleTask(id, NoFaults)

SpecStats == InitStats /\ [][NextStats]_vars

\* Counts: a second project or not, tasks in either project, toggled or
\* deleted, the second project deleted.
NextCounts ==
    \/ \E w \in {NoFaults} : LoadProjects(w)
    \/ \E input \in ScenarioProjectInputs : AddProject(input, NoFaults)
    \/ \E input \in ScenarioTaskInputs : AddTask(input, NoFaults)
    \/ \E id \in Ids : ToggleTask(id, NoFaults)
    \/ \E id \in Ids : DeleteTask(id, NoFaults)
    \/ \E id \in Ids : DeleteProject(id, NoFaults)

SpecCounts == Init /\ [][NextCounts]_vars

\* Two tabs: each tab loads, adds, updates, toggles, deletes and clears,
\* one handler at a time.
TabScenarioInputs ==
    [title : {"a"}, description : {NoStr}, priority : {""},
     projectId : {0}, dueDate : {NoDate}, tags : {<<>>}]

TabScenarioUpdates ==
    [keys : {{"title"}}, title : {"Ab"}]

NextTabs ==
    \/ LoadTasks
    \/ \E input \in TabScenarioInputs : AddTask(input, NoFaults)
    \/ \E id \in Ids, u \in TabScenarioUpdates : UpdateTask(id, u, NoFaults)
    \/ \E id \in Ids : ToggleTask(id, NoFaults)
    \/ \E id \in Ids : DeleteTask(id, NoFaults)
    \/ \E w \in {NoFaults} : ClearCompletedTasks(w)
    \/ PeerLoadTasks
    \/ \E input \in TabScenarioInputs : PeerAddTask(input, NoFaults)
    \/ \E id \in Ids, u \in TabScenarioUpdates : PeerUpdateTask(id, u, NoFaults)
    \/ \E id \in Ids : PeerToggleTask(id, NoFaults)
    \/ \E id \in Ids : PeerDeleteTask(id, NoFaults)
    \/ \E w \in {NoFaults} : PeerClearCompletedTasks(w)

SpecTabs == Init /\ [][NextTabs]_vars

\* Filter updates: one or two calls of updateFilter per event.
NextBatch ==
    \/ \E f \in FilterScenarioUpdates : UpdateFilter(f)
    \/ \E f1, f2 \in FilterScenarioUpdates : UpdateFilterTwice(f1, f2)
    \/ ClearFilters

SpecBatch == Init /\ [][NextBatch]_vars

\* One tab, every write stored: every handler of useTasks, with lists of
\* known and unknown ids for the bulk ones, and deleteProject.
SyncScenarioUpdates ==
    [keys : {{"status"}}, status : {"in_progress"}]

NextSync ==
    \/ LoadTasks
    \/ \E input \in ScenarioTaskInputs : AddTask(input, NoFaults)
    \/ \E id \in Ids, u \in SyncScenarioUpdates : UpdateTask(id, u, NoFaults)
    \/ \E id \in Ids : DeleteTask(id, NoFaults)
    \/ \E id \in Ids : ToggleTask(id, NoFaults)
    \/ \E w \in {NoFaults} : ClearCompletedTasks(w)
    \/ \E ids \in IdLists, p \in Ids : MoveTasksToProject(ids, p, NoFaults)
    \/ \E ids \in IdLists, u \in SyncScenarioUpdates : BulkUpdateTasks(ids, u, NoFaults)
    \/ \E ids \in IdLists : BulkDeleteTasks(ids, NoFaults)
    \/ \E w \in {NoFaults} : LoadProjects(w)
    \/ \E input \in ScenarioProjectInputs : AddProject(input, NoFaults)
    \/ \E id \in Ids : DeleteProject(id, NoFaults)

SpecSync == Init /\ [][NextSync]_vars

\* Renders: two tasks of two kinds created at the same time or not, a
\* filter that runs or not, every sort, and the render of the view.
ViewScenarioInputs ==
    [title : {"a"}, description : {NoStr}, priority : {"", "high"},
     projectId : {0}, dueDate : {NoDate}, tags : {<<>>}]

ViewScenarioUpdates ==
    [showCompleted : BOOLEAN] \cup [priority : {"all", "high"}]

NextView ==
    \/ Tick
    \/ \E input \in ViewScenarioInputs : AddTask(input, NoFaults)
    \/ \E f \in ViewScenarioUpdates : UpdateFilter(f)
    \/ \E o \in SortUpdates : UpdateSort(o)
    \/ RenderView

SpecView == Init /\ [][NextView]_vars

\* ============================================================ unknown ids
\* C11: updateTask and toggleTask on an id that no stored task has return
\* null, deleteTask returns false, and the stored tasks stay as they were
C11_UnknownId ==
    [][\A id \in Ids, w \in WriteOutcomes :
          id \notin IdsOf(PersistedTasks) =>
             /\ \A u \in TaskScenarioUpdates :
                   UpdateTask(id, u, w) =>
                      /\ TS_updateTask(Ctx(w), id, u).ret = NullTask
                      /\ ~last'.ok
                      /\ PersistedTasks' = PersistedTasks
             /\ ToggleTask(id, w) =>
                   /\ TS_toggleTask(Ctx(w), id).ret = NullTask
                   /\ ~last'.ok
                   /\ PersistedTasks' = PersistedTasks
             /\ DeleteTask(id, w) =>
                   /\ ~TS_deleteTask(Ctx(w), id).ret
                   /\ ~last'.ok
                   /\ PersistedTasks' = PersistedTasks]_vars

\* an updateTask or a toggleTask returned null while tasks were stored
C11_Witness ==
    /\ last.op \in {"updateTask", "toggleTask"}
    /\ ~last.ok
    /\ Len(PersistedTasks) > 0

\* =============================================================== deletion
\* the tasks of a collection other than the one with the given id
Others(tasks, id) ==
    SelectSeq(tasks, LAMBDA t : t.id # id)

\* C12: deleteTask(id) returns true exactly when a task with that id was
\* stored and is not stored any more; the other stored tasks are what they
\* were, in the same order; after a true, deleteTask(id) returns false
C12_DeleteTask ==
    [][\A id \in Ids, w \in WriteOutcomes :
          DeleteTask(id, w) =>
             /\ last'.ok = TS_deleteTask(Ctx(w), id).ret
             /\ last'.ok <=> (/\ id \in IdsOf(PersistedTasks)
                              /\ id \notin IdsOf(PersistedTasks'))
             /\ Others(PersistedTasks', id) = Others(PersistedTasks, id)
             /\ last'.ok =>
                   \A w2 \in WriteOutcomes : ~TS_deleteTask(Ctx(w2)', id).ret]_vars

\* a deleteTask returned true and left another task stored
C12_Witness ==
    /\ last.op = "deleteTask"
    /\ last.ok
    /\ Len(PersistedTasks) > 0

\* C13: after clearCompletedTasks returned n, no stored task is completed,
\* the stored tasks are the formerly stored tasks that were not completed,
\* in their order, and n is the number of tasks that left the store
C13_ClearCompleted ==
    [][\A w \in WriteOutcomes :
          ClearCompletedTasks(w) =>
             /\ \A i \in 1..Len(PersistedTasks') : ~PersistedTasks'[i].completed
             /\ PersistedTasks' = SelectSeq(PersistedTasks, LAMBDA t : ~t.completed)
             /\ TS_clearCompletedTasks(Ctx(w)).ret =
                   Len(PersistedTasks) - Len(PersistedTasks')]_vars

\* ======================================================== default project
\* C14: getProjects on a store without projects returns one project, with
\* isDefault true, and stores it: the calls of getProjects,
\* getDefaultProject and projectExists that follow see that project
C14_DefaultPersisted ==
    [][\A w \in WriteOutcomes :
          (Len(PersistedProjects) = 0 /\ LoadProjects(w)) =>
             \A g \in {PS_getProjects(Ctx(w))}, w2 \in WriteOutcomes :
                /\ Len(g.ret) = 1
                /\ g.ret[1].isDefault
                /\ PS_getProjects(Ctx(w2)').ret = g.ret
                /\ PS_getDefaultProject(Ctx(w2)').ret = g.ret[1]
                /\ PS_projectExists(Ctx(w2)', g.ret[1].id).ret]_vars

\* C15: filtering is idempotent: at a fixed time, the filter step applied to
\* its own output gives what the filter step gave
C15_FilterIdempotent ==
    \A once \in {FilterStep(hookTasks, filter, now)} :
        FilterStep(once, filter, now) = once

\* a filter that keeps one of two tasks
C15_Witness ==
    /\ Len(hookTasks) = 2
    /\ filter # DEFAULT_FILTER
    /\ Len(FilterStep(hookTasks, filter, now)) = 1

\* C16: the filter result is exactly the tasks, in their order and once
\* each, that satisfy every predicate of the filter; applying the
\* predicates in the opposite order gives the same result; with the default
\* filter the result is the whole collection
C16_Conjunctive ==
    \A result \in {FilterStep(hookTasks, filter, now)} :
        /\ result = SelectSeq(hookTasks, LAMBDA t :
                        /\ MatchesTags(t, filter)
                        /\ MatchesDueDate(t, filter, now)
                        /\ MatchesCompleted(t, filter)
                        /\ MatchesProject(t, filter)
                        /\ MatchesPriority(t, filter)
                        /\ MatchesStatus(t, filter)
                        /\ MatchesSearch(t, filter))
        /\ result =
             SelectSeq(
              SelectSeq(
               SelectSeq(
                SelectSeq(
                 SelectSeq(
                  SelectSeq(
                   SelectSeq(hookTasks, LAMBDA t : MatchesTags(t, filter)),
                   LAMBDA t : MatchesDueDate(t, filter, now)),
                  LAMBDA t : MatchesCompleted(t, filter)),
                 LAMBDA t : MatchesProject(t, filter)),
                LAMBDA t : MatchesPriority(t, filter)),
               LAMBDA t : MatchesStatus(t, filter)),
              LAMBDA t : MatchesSearch(t, filter))
        /\ filter = DEFAULT_FILTER => result = hookTasks

\* two predicates at work, each removing a different task
C16_Witness ==
    /\ Len(hookTasks) = 2
    /\ filter.showCompleted = FALSE /\ filter.tags # <<>>
    /\ hookTasks[1].completed /\ MatchesTags(hookTasks[1], filter)
    /\ ~hookTasks[2].completed /\ ~MatchesTags(hookTasks[2], filter)
    /\ FilterStep(hookTasks, filter, now) = <<>>

\* C17: with the filter {dueDate: overdue, showCompleted: false} the result
\* is exactly the tasks that have a due date earlier than the first instant
\* of today and are not completed
C17_Overdue ==
    filter = [DEFAULT_FILTER EXCEPT !.dueDate = "overdue", !.showCompleted = FALSE]
    => \A midnight \in {m \in 0..now : m % DayLen = 0 /\ now < m + DayLen} :
          FilterStep(hookTasks, filter, now)
            = SelectSeq(hookTasks, LAMBDA t :
                  /\ t.dueDate # NoDate
                  /\ t.dueDate < midnight
                  /\ ~t.completed)

\* an overdue task is returned and a completed task due the same day is not
C17_Witness ==
    /\ filter = [DEFAULT_FILTER EXCEPT !.dueDate = "overdue", !.showCompleted = FALSE]
    /\ Len(hookTasks) = 2
    /\ hookTasks[1].dueDate = hookTasks[2].dueDate
    /\ hookTasks[1].dueDate # NoDate
    /\ hookTasks[2].completed
    /\ FilterStep(hookTasks, filter, now) = <<hookTasks[1]>>

\* C18: whatever day of the week today is, the thisWeek bucket matches
\* exactly the due days d with today <= d <= today + (7 - weekday index of
\* today), the nextWeek bucket exactly the due days d with
\* thisWeekEnd < d <= thisWeekEnd + 7, and no due day is matched by both
C18_WeekBuckets ==
    \A today \in {d \in 0..now : d * DayLen <= now /\ now < (d + 1) * DayLen} :
    \A weekEnd \in {today + (7 - GetDay(today))} :
    \A i \in 1..Len(hookTasks) :
    \A t \in {hookTasks[i]} :
        t.dueDate # NoDate =>
        \A d \in {d \in 0..t.dueDate :
                    d * DayLen <= t.dueDate /\ t.dueDate < (d + 1) * DayLen} :
        \A thisWeek \in {MatchesDueDate(t, [filter EXCEPT !.dueDate = "thisWeek"], now)} :
        \A nextWeek \in {MatchesDueDate(t, [filter EXCEPT !.dueDate = "nextWeek"], now)} :
            /\ thisWeek <=> (today <= d /\ d <= weekEnd)
            /\ nextWeek <=> (weekEnd < d /\ d <= weekEnd + 7)
            /\ ~(thisWeek /\ nextWeek)
            /\ filter.dueDate = "thisWeek"
                 => (FilterStep(hookTasks, filter, now) # <<>>) = thisWeek
            /\ filter.dueDate = "nextWeek"
                 => (FilterStep(hookTasks, filter, now) # <<>>) = nextWeek

\* on a Sunday the task due the Sunday after is of this week
C18_Witness ==
    /\ GetDay(DayOf(now)) = 0
    /\ Len(hookTasks) = 1
    /\ hookTasks[1].dueDate # NoDate
    /\ DayOf(hookTasks[1].dueDate) = DayOf(now) + 7
    /\ filter.dueDate = "thisWeek"
    /\ FilterStep(hookTasks, filter, now) = hookTasks

\* C19: when the filter names tags, a task is kept if and only if one of
\* its tags is one of the filter's, so a task without tags is not kept; when
\* the filter names no tag, the tags filter keeps every task
C19_TagsAnyOf ==
    /\ \A i \in 1..Len(hookTasks) :
       \A t \in {hookTasks[i]} :
       \A common \in {{t.tags[j] : j \in 1..Len(t.tags)}
                        \cap {filter.tags[j] : j \in 1..Len(filter.tags)}} :
          /\ filter.tags # <<>> => (MatchesTags(t, filter) <=> common # {})
          /\ filter.tags # <<>> /\ t.tags = <<>> => ~MatchesTags(t, filter)
          /\ filter.tags = <<>> => MatchesTags(t, filter)
    /\ \A j \in 1..Len(filter.tags) :
          FilterStep(hookTasks, [DEFAULT_FILTER EXCEPT !.tags = <<filter.tags[j]>>], now)
            = SelectSeq(FilterStep(hookTasks, filter, now), LAMBDA t :
                 \E k \in 1..Len(t.tags) : t.tags[k] = filter.tags[j])
    /\ filter.tags = <<>> => FilterStep(hookTasks, filter, now) = hookTasks

\* a filter of two tags keeps the task that has one of them and drops the
\* task that has none
C19_Witness ==
    /\ Len(filter.tags) = 2
    /\ Len(hookTasks) = 2
    /\ Len(hookTasks[1].tags) = 1
    /\ hookTasks[2].tags = <<>>
    /\ FilterStep(hookTasks, filter, now) = <<hookTasks[1]>>

\* C20: sorting is stable in both directions: under every sort key,
\* ascending and descending, the output holds the tasks of the input, and
\* two tasks whose sort keys are equal are in the output in the order they
\* have in the input
C20_StableSort ==
    \A out \in {FilteredAndSortedTasks} :
        /\ Len(out) = Len(hookTasks)
        /\ \A i, j \in 1..Len(hookTasks) :
              /\ i < j
              /\ ~ValueLess(hookTasks[i], hookTasks[j], sort.sortBy)
              /\ ~ValueLess(hookTasks[j], hookTasks[i], sort.sortBy)
              => \E p, q \in 1..Len(out) :
                    p < q /\ out[p] = hookTasks[i] /\ out[q] = hookTasks[j]

\* a descending sort by title of two tasks whose titles differ in case only
C20_Witness ==
    /\ sort = [sortBy |-> "title", direction |-> "desc"]
    /\ Len(hookTasks) = 2
    /\ hookTasks[1].title = "Ab" /\ hookTasks[2].title = "AB"
    /\ FilteredAndSortedTasks = hookTasks

\* C21: sorted by priority, descending, no task of a lower priority comes
\* before a task of a higher one (high above medium above low), and
\* ascending is the opposite; sorted by status the same holds with todo
\* below in_progress below completed
C21_Ordinals ==
    \A out \in {FilteredAndSortedTasks} :
    \A above \in {{<<"high", "medium">>, <<"medium", "low">>, <<"high", "low">>}} :
    \A later \in {{<<"completed", "in_progress">>, <<"in_progress", "todo">>,
                   <<"completed", "todo">>}} :
    \A p, q \in 1..Len(out) :
        p < q =>
        /\ sort = [sortBy |-> "priority", direction |-> "desc"]
             => <<out[q].priority, out[p].priority>> \notin above
        /\ sort = [sortBy |-> "priority", direction |-> "asc"]
             => <<out[p].priority, out[q].priority>> \notin above
        /\ sort = [sortBy |-> "status", direction |-> "desc"]
             => <<out[q].status, out[p].status>> \notin later
        /\ sort = [sortBy |-> "status", direction |-> "asc"]
             => <<out[p].status, out[q].status>> \notin later

\* a low task added before a medium one comes after it in descending
\* priority order
C21_Witness ==
    /\ sort = [sortBy |-> "priority", direction |-> "desc"]
    /\ Len(hookTasks) = 2
    /\ hookTasks[1].priority = "low" /\ hookTasks[2].priority = "medium"
    /\ FilteredAndSortedTasks = <<hookTasks[2], hookTasks[1]>>

\* C22: sorted by due date, ascending, every task that has a due date, the
\* one of timestamp 0 included, comes before every task that has none, and
\* the tasks that have one are in the order of their timestamps
C22_DueDateAscending ==
    sort = [sortBy |-> "dueDate", direction |-> "asc"]
    => \A out \in {FilteredAndSortedTasks} :
       \A p, q \in 1..Len(out) :
          p < q =>
          /\ ~(out[p].dueDate = NoDate /\ out[q].dueDate # NoDate)
          /\ out[p].dueDate # NoDate /\ out[q].dueDate # NoDate
               => out[p].dueDate <= out[q].dueDate

\* C23: getTaskStats over the stored tasks, getTaskStatsByProject over the
\* stored tasks of the project and stats of useTasks over the hook's tasks
\* each give total = the number of tasks, completed = the number of
\* completed ones, pending = total - completed, highPriority = the number
\* of uncompleted ones of priority high, and overdue = the number of
\* uncompleted ones whose due date is an earlier instant than now
C23_Statistics ==
    \A pair \in {<<TS_getTaskStats(Ctx(<<>>)), PersistedTasks>>,
                 <<Stats, hookTasks>>}
                \cup {<<TS_getTaskStatsByProject(Ctx(<<>>), p),
                        SelectSeq(PersistedTasks, LAMBDA t : t.projectId = p)>> :
                      p \in Ids} :
    \A s \in {pair[1]} :
    \A tasks \in {pair[2]} :
        /\ s.total = Len(tasks)
        /\ s.completed = Cardinality({i \in 1..Len(tasks) : tasks[i].completed})
        /\ s.pending = s.total - s.completed
        /\ s.highPriority = Cardinality({i \in 1..Len(tasks) :
                                tasks[i].priority = "high" /\ ~tasks[i].completed})
        /\ s.overdue = Cardinality({i \in 1..Len(tasks) :
                                /\ tasks[i].dueDate # NoDate
                                /\ tasks[i].dueDate < now
                                /\ ~tasks[i].completed})

\* C24: after any task mutations through useTasks and project deletions
\* through useProjects, stats of useTasks and the counts of every project
\* in projectsWithStats, with their sums in projectStats, are the ones
\* computed from the stored tasks
C24_StatsCurrent ==
    /\ Stats = StatsOf(PersistedTasks, now)
    /\ \A i \in 1..Len(projectsWithStats) :
       \A p \in {projectsWithStats[i]} :
       \A mine \in {SelectSeq(PersistedTasks, LAMBDA t : t.projectId = p.id)} :
          /\ p.taskCount = Len(mine)
          /\ p.completedCount = Len(SelectSeq(mine, LAMBDA t : t.completed))
          /\ p.pendingCount = Len(SelectSeq(mine, LAMBDA t : ~t.completed))

C26_BothUpdatesApplied ==
    [][\A f1, f2 \in FilterScenarioUpdates :
          UpdateFilterTwice(f1, f2)
          => filter' = FilterUpdater(FilterUpdater(filter, f1), f2)]_vars

\* C27: in one tab with no storage failure, after every handler of
\* useTasks and every deleteProject, the tasks of the hook are the stored
\* ones: the same ids, each with the stored projectId, completed, status
\* and priority
C27_HookMatchesStore ==
    /\ IdsOf(hookTasks) = IdsOf(PersistedTasks)
    /\ \A i \in 1..Len(hookTasks), j \in 1..Len(PersistedTasks) :
          hookTasks[i].id = PersistedTasks[j].id
          => /\ hookTasks[i].projectId = PersistedTasks[j].projectId
             /\ hookTasks[i].completed = PersistedTasks[j].completed
             /\ hookTasks[i].status = PersistedTasks[j].status
             /\ hookTasks[i].priority = PersistedTasks[j].priority

\* C28: at every time and for every collection of the hook, the overdue
\* count of stats is the number of tasks that the filter step returns for
\* the filter that is the default one but for dueDate = overdue
C28_OverdueAgree ==
    Stats.overdue
      = Len(FilterStep(hookTasks, [DEFAULT_FILTER EXCEPT !.dueDate = "overdue"], now))

\* a task due yesterday is counted and a task due earlier today is not
C28_Witness ==
    /\ Len(hookTasks) = 2
    /\ ~hookTasks[1].completed /\ ~hookTasks[2].completed
    /\ hookTasks[1].dueDate # NoDate /\ hookTasks[1].dueDate < StartOfDay(now)
    /\ hookTasks[2].dueDate # NoDate /\ hookTasks[2].dueDate < now
    /\ hookTasks[2].dueDate >= StartOfDay(now)
    /\ Stats.overdue = 1

\* C29: computing filteredAndSortedTasks leaves the tasks of the hook as
\* they were, in content and order, and its result holds tasks of the hook
\* only, each at most once
C29_ViewLeavesTasks ==
    [][RenderView =>
         /\ hookTasks' = hookTasks
         /\ \A result \in {FilteredAndSortedTasks} :
               /\ last'.n = Len(result)
               /\ \A p \in 1..Len(result) :
                     \E i \in 1..Len(hookTasks) : hookTasks[i] = result[p]
               /\ \A p, q \in 1..Len(result) :
                     p # q => result[p].id # result[q].id]_vars

\* a render whose view is the two tasks in the opposite order
C29_Witness ==
    /\ last.op = "renderView"
    /\ Len(hookTasks) = 2
    /\ ~FilterRuns(filter)
    /\ FilteredAndSortedTasks = <<hookTasks[2], hookTasks[1]>>

\* -------------------------------------------- scenario: project names
\* the names of the projects of the scenario
NameScenarioInputs ==
    [name : {"Work", "Personal (1)", "(1)", " (1)"}, color : {""}]

NextNames ==
    \/ Tick
    \/ LoadProjects(NoFaults)
    \/ \E input \in NameScenarioInputs : AddProject(input, NoFaults)
    \/ \E id \in 1..MaxId : DeleteProject(id, NoFaults)
    \/ \E baseName \in BaseNames : SuggestName(baseName)

SpecNames == Init /\ [][NextNames]_vars

\* C30: getProjectNameSuggestion leaves its loop for every base name, an
\* empty or blank one included, and the name it returns passes
\* validateProjectName, is not empty once trimmed and differs, whatever the
\* case of its letters, from the name of every project
C30_SuggestionValid ==
    [][\A b \in BaseNames :
          (last'.op = "getProjectNameSuggestion" /\ SuggestName(b)) =>
             \A r \in {GetProjectNameSuggestion(b)} :
                /\ r.done
                /\ ValidateProjectName(hookProjects, r.suggestion, 0)
                /\ Trim(r.suggestion) # <<>>
                /\ \A i \in 1..Len(hookProjects) :
                      ToLowerCase(Chars(hookProjects[i].name))
                         # ToLowerCase(r.suggestion)]_vars

====
